---- MODULE Spec2Model ----
EXTENDS Bags, FiniteSets, Integers, Naturals, Sequences, TLC

\* Bounds of the model.
MaxEntities == 2
MaxRelations == 2
MaxTraces == 2
MaxEvents == 2
MaxBatch == 2
MaxWrites == 2
MaxGraphWrites == 3

\* ---------------------------------------------------------------------
\* Ontology schema used as the active schema (a schema whose relation
\* type "performs" is functional).
\* ---------------------------------------------------------------------
NoParent == "none"
EntityTypes == {"Agent", "LLMAgent", "Task"}
Parent == [t \in EntityTypes |->
             CASE t = "LLMAgent" -> "Agent"
               [] OTHER -> NoParent]
RelTypes == {"performs", "knows"}
Domain == [r \in RelTypes |-> "Agent"]
Range == [r \in RelTypes |-> IF r = "performs" THEN "Task" ELSE "Agent"]
Functional == [r \in RelTypes |-> r = "performs"]

\* Entity type ids and relation type ids a request may carry.
ReqEntityTypes == {"LLMAgent", "Task", "Unknown"}
ReqRelTypes == RelTypes \cup {"unknown"}

\* OntologyValidator::validate_entity in schema s (unknown type, or a
\* property error)
ValidateEntity(s, t, propsValid) ==
  t \in s.types /\ propsValid

VARIABLES
  entType,        \* entity table: entity i has type entType[i]
  entVec,         \* ids of entities whose embedding is stored in Qdrant
  collections,    \* Qdrant collections that exist
  relations,      \* relation table: records [rt, src, tgt]; relation i has id i
  relDel,         \* ids of deleted relation records
  lastEnt,        \* response of the last completed create_entity call
  entDel,         \* ids of deleted entities
  lastDel,        \* response of the last completed delete_entity call (with the
                  \* deleted id on success)
  hp              \* hp[p]: position and locals of the request served by task p

relVars == <<entType, entVec, collections, relations, relDel, lastEnt, entDel, lastDel, hp>>

\* Concurrent request tasks of the HTTP server serving the entity and
\* relation handlers.
HandlerSlots == {1, 2}

NoEnt == [result |-> "none", id |-> 0, embedFail |-> FALSE, vecFault |-> FALSE]
NoDel == [result |-> "none", id |-> 0, vecDelOk |-> FALSE]
\* A free task.  pc: the await the handler is suspended at; t: entity type;
\* emb: an embedding was computed; id: entity id (create/delete entity),
\* source id (create_relation) or relation id (delete_relation); tg, rt:
\* target and relation type of create_relation; fault: a Qdrant step of
\* create_entity failed.
NoHandler == [pc |-> "idle", t |-> "none", emb |-> FALSE, embFail |-> FALSE, id |-> 0,
              tg |-> 0, rt |-> "none", fault |-> FALSE]

\* Entity i is stored (created and not deleted).
EntityExists(i) == i \in 1..Len(entType) /\ i \notin entDel

\* Relation i is stored.
RelationExists(i) == i \in 1..Len(relations) /\ i \notin relDel

\* Stored outgoing relations of type rt from source s.
OutCount(rels, dels, s, rt) ==
  Cardinality({i \in 1..Len(rels) : i \notin dels /\ rels[i].src = s /\ rels[i].rt = rt})

\* Number of tasks suspended at one of the awaits pcs.
Busy(pcs) == Cardinality({p \in HandlerSlots : hp[p].pc \in pcs})

InitRel ==
  /\ entType = <<>>
  /\ entVec = {}
  /\ collections = {}
  /\ relations = <<>>
  /\ relDel = {}
  /\ lastEnt = NoEnt
  /\ entDel = {}
  /\ lastDel = NoDel
  /\ hp = [p \in HandlerSlots |-> NoHandler]

\* create_entity: result of the handler once the entity record is written;
\* the Qdrant stage's errors are logged and dropped (.map_err(..).ok()).
EntityWriteResultPropagated(vecFault) == IF vecFault THEN "vector_error" ELSE "ok"
EntityWriteResult(vecFault) == "ok"

\* ---------------------------------------------------------------------
\* Event ingestion (Phase 5)
\* ---------------------------------------------------------------------
None == "none"
\* Trace id strings.  Uuid(n): the uuid of the n-th created agent_trace, as
\* returned by create_trace_for_session.  RecStr(n): the `id` column of the
\* n-th trace as read back by a SELECT (the record id agent_trace:<uuid>, not
\* the bare uuid).  NoTid: absent.
Uuid(n) == <<"uuid", n>>
RecStr(n) == <<"thing", n>>
NoTid == <<"none", 0>>
\* Outcomes of a trace lookup query besides a row: a query error (the `?`)
\* and no usable row (empty result, or a row whose `id` does not decode into
\* TraceRecord.id: String, swallowed by take(0).unwrap_or_default()).
LErr == <<"err", 0>>
LNone == <<"none", 0>>

EventsCollection == "agent_events"
DefaultSession == "default"
Sessions == {"s"}
Agents == {"a"}
\* Shapes of request.properties: an object with scalar fields, an object
\* without scalar fields, a non-empty JSON string, the empty string "", a
\* number, an array.
Props == {"obj", "empty", "str", "emptystr", "num", "arr"}

VARIABLES
  traces,       \* agent_trace table: trace n has record traces[n], id Uuid(n)
  evAlloc,      \* evAlloc[n]: trace_id of the n-th event uuid generated by create_event_entity
  evs,          \* uuids whose agent_event record is persisted
  edges,        \* contains edges <<trace id string, event uuid>>
  evVec,        \* event uuids with a vector in the agent_events collection
  lastEv,       \* summary of the last ingest_event call
  bpc,          \* ingest_events_bulk: "idle", "run" (in the loop), "done" (responded)
  blen,         \* number of events in the bulk request
  bauto,        \* options.auto_create_traces
  bgen,         \* options.generate_embeddings
  bidx,         \* next index of the loop
  bingested,
  bfailed,
  btraceIds,
  berrors,      \* sequence of error indexes
  brec,         \* per-index outcome of the loop body
  bcur,         \* the ingestion of the loop body in progress
  sp,           \* sp[p]: the ingest_event call served by task p
  evStarted     \* number of event ingestions begun

evVars == <<traces, evAlloc, evs, edges, evVec, lastEv,
            bpc, blen, bauto, bgen, bidx, bingested, bfailed, btraceIds, berrors, brec,
            bcur, sp, evStarted>>
\* ---------------------------------------------------------------------
\* Ontology schemas as values (OntologySchema): entity types with their
\* parent, relation types with domain, range, inverse and symmetric flag.
\* parent, dom, rng, inv and sym are functions over the declared ids.
\* ---------------------------------------------------------------------
NoInverse == "none"

MkSchema(ts, par, rs, dm, rg, iv, sy) ==
  [types |-> ts, parent |-> par, rels |-> rs, dom |-> dm, rng |-> rg, inv |-> iv, sym |-> sy]

\* EntityType::is_subtype_of, for a type t declared in schema s (the
\* recursion along a cyclic parent chain does not end: it is applied to
\* validated schemas only)
RECURSIVE SchIsSubtypeOf(_, _, _)
SchIsSubtypeOf(s, t, other) ==
  IF t = other THEN TRUE
  ELSE IF s.parent[t] # NoParent
       THEN IF s.parent[t] = other THEN TRUE
            ELSE IF s.parent[t] \in s.types THEN SchIsSubtypeOf(s, s.parent[t], other)
            ELSE FALSE
       ELSE FALSE

\* get_subtypes keeping the direct children only
GetSubtypesDirect(s, t) ==
  {t} \cup {id \in s.types : id # t /\ s.parent[id] = t}

\* OntologySchema::get_subtypes (a Vec in HashMap order; as a set)
GetSubtypes(s, t) ==
  {t} \cup {id \in s.types : id # t /\ SchIsSubtypeOf(s, id, t)}

\* OntologySchema::get_supertypes: the while loop pushes each parent id and
\* stops at a type without parent or at an undeclared parent id.
RECURSIVE SupertypeChain(_, _, _)
SupertypeChain(s, cur, fuel) ==
  IF s.parent[cur] = NoParent \/ fuel = 0 THEN <<>>
  ELSE <<s.parent[cur]>> \o
       (IF s.parent[cur] \in s.types THEN SupertypeChain(s, s.parent[cur], fuel - 1) ELSE <<>>)
GetSupertypes(s, t) ==
  <<t>> \o (IF t \in s.types THEN SupertypeChain(s, t, Cardinality(s.types)) ELSE <<>>)

\* OntologySchema::has_circular_inheritance: walk the parents with a
\* visited set, a revisit is a cycle.
RECURSIVE CircWalk(_, _, _)
CircWalk(s, cur, visited) ==
  IF cur \notin s.types THEN FALSE
  ELSE IF cur \in visited THEN TRUE
  ELSE IF s.parent[cur] = NoParent THEN FALSE
  ELSE CircWalk(s, s.parent[cur], visited \cup {cur})
HasCircularInheritance(s, id) == CircWalk(s, id, {})

\* OntologySchema::validate without the circular inheritance check
ValidateSchemaNoCycleCheck(s) ==
  /\ \A id \in s.types :
       s.parent[id] = NoParent \/ s.parent[id] \in s.types
  /\ \A r \in s.rels :
       /\ s.dom[r] \in s.types
       /\ s.rng[r] \in s.types
       /\ s.inv[r] = NoInverse \/ s.inv[r] \in s.rels

\* OntologySchema::validate (TRUE = Ok)
ValidateSchema(s) ==
  /\ \A id \in s.types :
       /\ ~HasCircularInheritance(s, id)
       /\ s.parent[id] = NoParent \/ s.parent[id] \in s.types
  /\ \A r \in s.rels :
       /\ s.dom[r] \in s.types
       /\ s.rng[r] \in s.types
       /\ s.inv[r] = NoInverse \/ s.inv[r] \in s.rels

\* OntologyReasoner::is_type_compatible
IsTypeCompatible(s, a, e) ==
  a = e \/ (a \in s.types /\ SchIsSubtypeOf(s, a, e))

\* infer_relations matching the domain exactly (no subtypes)
InferRelationsExact(s, t) ==
  UNION {
    {[rt |-> r, src |-> t, tgt |-> s.rng[r], reason |-> "SubtypeInheritance"]}
    \cup (IF s.sym[r]
          THEN {[rt |-> r, src |-> s.rng[r], tgt |-> t, reason |-> "Symmetric"]}
          ELSE {})
    \cup (IF s.inv[r] # NoInverse
          THEN {[rt |-> s.inv[r], src |-> s.rng[r], tgt |-> t, reason |-> "Inverse"]}
          ELSE {})
  : r \in {r2 \in s.rels : s.dom[r2] = t}}

\* OntologyReasoner::infer_relations (a Vec in HashMap order; as a set)
InferRelations(s, t) ==
  UNION {
    {[rt |-> r, src |-> t, tgt |-> s.rng[r], reason |-> "SubtypeInheritance"]}
    \cup (IF s.sym[r]
          THEN {[rt |-> r, src |-> s.rng[r], tgt |-> t, reason |-> "Symmetric"]}
          ELSE {})
    \cup (IF s.inv[r] # NoInverse
          THEN {[rt |-> s.inv[r], src |-> s.rng[r], tgt |-> t, reason |-> "Inverse"]}
          ELSE {})
  : r \in {r2 \in s.rels : IsTypeCompatible(s, t, s.dom[r2])}}

\* OntologyReasoner::expand_query
ExpandQuery(s, t) ==
  IF t \notin s.types
  THEN [ok |-> FALSE, types |-> {}, inferred |-> {}]
  ELSE [ok |-> TRUE, types |-> GetSubtypes(s, t), inferred |-> InferRelations(s, t)]

\* ---------------------------------------------------------------------
\* Schema upload and the active reasoner (AppState.reasoner, an
\* RwLock<Option<OntologyReasoner>> shared with the QueryCoordinator).
\* ---------------------------------------------------------------------
MaxUploads == 2

NoRelMap == [r \in {} |-> NoInverse]
\* The schema of the entity and relation handlers: Agent, LLMAgent(parent
\* Agent), Task; performs: Agent -> Task (functional), knows: Agent -> Agent.
RelSchema ==
  MkSchema(EntityTypes, Parent, RelTypes, Domain, Range,
           [r \in RelTypes |-> NoInverse], [r \in RelTypes |-> FALSE])
\* Agent, LLMAgent(parent Agent), Task; executes: Agent -> Task
SchemaA ==
  MkSchema({"Agent", "LLMAgent", "Task"},
           [t \in {"Agent", "LLMAgent", "Task"} |-> IF t = "LLMAgent" THEN "Agent" ELSE NoParent],
           {"executes"}, [r \in {"executes"} |-> "Agent"], [r \in {"executes"} |-> "Task"],
           [r \in {"executes"} |-> NoInverse], [r \in {"executes"} |-> FALSE])
\* Agent, Task; executes: Agent -> Task
SchemaB ==
  MkSchema({"Agent", "Task"}, [t \in {"Agent", "Task"} |-> NoParent],
           {"executes"}, [r \in {"executes"} |-> "Agent"], [r \in {"executes"} |-> "Task"],
           [r \in {"executes"} |-> NoInverse], [r \in {"executes"} |-> FALSE])
\* Agent(parent LLMAgent), LLMAgent(parent Agent): circular inheritance
SchemaCyclic ==
  MkSchema({"Agent", "LLMAgent"},
           [t \in {"Agent", "LLMAgent"} |-> IF t = "Agent" THEN "LLMAgent" ELSE "Agent"],
           {}, NoRelMap, NoRelMap, NoRelMap, NoRelMap)
\* Agent; executes: Agent -> Task with Task undeclared
SchemaBadRange ==
  MkSchema({"Agent"}, [t \in {"Agent"} |-> NoParent],
           {"executes"}, [r \in {"executes"} |-> "Agent"], [r \in {"executes"} |-> "Task"],
           [r \in {"executes"} |-> NoInverse], [r \in {"executes"} |-> FALSE])
UploadSchemas == {SchemaA, SchemaB, SchemaCyclic, SchemaBadRange}

\* UploadSchemaRequest {schema, format}; a document that does not parse
\* carries no schema.
UploadDocs ==
  [fmt : {"json", "yaml"}, parses : {FALSE}, sch : {SchemaB}]
  \cup [fmt : {"json", "yaml"}, parses : {TRUE}, sch : UploadSchemas]

\* OntologyLoader::from_json_str / from_yaml_str: parse, then validate.
LoadSchemaUnvalidated(doc) ==
  IF ~doc.parses THEN [ok |-> FALSE, err |-> "parse", sch |-> doc.sch]
  ELSE [ok |-> TRUE, err |-> "none", sch |-> doc.sch]
LoadSchema(doc) ==
  IF ~doc.parses THEN [ok |-> FALSE, err |-> "parse", sch |-> doc.sch]
  ELSE IF ~ValidateSchema(doc.sch) THEN [ok |-> FALSE, err |-> "validation", sch |-> doc.sch]
  ELSE [ok |-> TRUE, err |-> "none", sch |-> doc.sch]

\* Snapshot of the reasoner: the schema and the number of the upload that
\* installed it (0: the schema loaded at startup).
NoSnapshot == [ver |-> -1, sch |-> SchemaB]
NoRead == -2
NoUpload == [status |-> 0, doc |-> [fmt |-> "json", parses |-> FALSE, sch |-> SchemaB],
             before |-> NoSnapshot]

\* QueryCoordinator::expand_entity_types (under one read lock)
ExpandEntityTypes(snap, t) ==
  IF snap = NoSnapshot THEN {t}
  ELSE LET x == ExpandQuery(snap.sch, t) IN IF x.ok THEN x.types ELSE {t}

\* QueryCoordinator::expand_relation_types (under one read lock)
ExpandRelationTypes(snap, rts) ==
  IF snap = NoSnapshot THEN rts
  ELSE rts \cup UNION {{i.rt : i \in {i2 \in ExpandQuery(snap.sch, et).inferred : i2.rt \in rts}}
                       : et \in snap.sch.types}

\* A combined query: VectorQuery {entity_type, expand_types} and an
\* optional GraphQuery {relation_types, expand_relations}.
QueryRequests ==
  [etype : {"Agent"}, expandTypes : BOOLEAN, hasGraph : BOOLEAN,
   rts : {{"executes"}}, expandRels : BOOLEAN]
NoQuery == [etype |-> "Agent", expandTypes |-> FALSE, hasGraph |-> FALSE,
            rts |-> {"executes"}, expandRels |-> FALSE]

VARIABLES
  active,        \* the reasoner's snapshot (NoSnapshot: None)
  uploadCount,   \* number of upload_schema requests served
  lastUpload,    \* outcome of the last upload_schema request
  qpc,           \* position of the combined query
  qReq,          \* the combined query
  qVecSnap,      \* snapshot read by the vector type expansion
  qGraphSnap,    \* snapshot read by the graph relation expansion
  qTypes,        \* searched entity types
  qRels,         \* traversed relation types
  fnSch,         \* schema argument of a pure function
  fnArg,         \* other arguments of a pure function
  fnOut          \* result of a pure function

ontVars == <<active, uploadCount, lastUpload, qpc, qReq, qVecSnap, qGraphSnap, qTypes, qRels>>
fnVars == <<fnSch, fnArg, fnOut>>

vars == <<relVars, evVars, ontVars, fnVars>>

TraceExists(tid) == \E n \in 1..Len(traces) : tid = Uuid(n)
MaxOf(S) == CHOOSE m \in S : \A k \in S : k <= m
SessionMatches(sid) == {n \in 1..Len(traces) : traces[n].session = sid}
\* agent_id = a AND status = 'running' AND start_time > time::now() - 1h
\* (every trace of a run is younger than one hour)
AgentMatches(aid) ==
  {n \in 1..Len(traces) : traces[n].agent = aid /\ traces[n].status = "running"}

\* SELECT id, start_time ... ORDER BY start_time DESC LIMIT 1, read as Vec<TraceRecord>
Lookup(matches) ==
  {LErr, LNone} \cup (IF matches = {} THEN {} ELSE {RecStr(MaxOf(matches))})

\* create_trace_for_session(sess, aid): the created agent_trace record.
NewTrace(sess, aid) == [session |-> sess, agent |-> aid, status |-> "running"]

\* create_event_entity, CREATE agent_event: "err" is a query error (the `?`);
\* "stmt_err" is a statement error kept inside the Ok response (properties is
\* declared TYPE object on the SCHEMAFULL agent_event table, so every value
\* that is not an object is rejected).
CreateEventOutcomes(props) ==
  {"err"} \cup (IF props \in {"obj", "empty"} THEN {"ok"} ELSE {"stmt_err"})

\* create_event_entity, RELATE trace->contains->event
RelateOutcomes(tid, persisted) ==
  {"ok", "err"} \cup (IF TraceExists(tid) /\ persisted THEN {} ELSE {"stmt_err"})

\* extract_text_from_json(..) is non-empty: a string is its own text (empty
\* for ""), an object the joined text of its scalar fields, any other value
\* (number, array, ...) has no text.
HasText(props) == props \in {"obj", "str"}

Requests ==
  [tid : {NoTid, Uuid(1)}, sid : Sessions \cup {None},
   aid : Agents \cup {None}, props : Props]

NoLast == [req |-> [tid |-> NoTid, sid |-> None, aid |-> None, props |-> "obj"],
           result |-> "none", faults |-> FALSE, tid |-> NoTid, n |-> 0, newTrace |-> 0,
           agentMatch |-> 0, sessMatch |-> FALSE, vecFault |-> FALSE,
           embedFail |-> FALSE, log |-> <<>>]

NoRec == [outcome |-> "pending", sid |-> None, tidGiven |-> FALSE, tid |-> NoTid, n |-> 0,
          newTrace |-> FALSE, sessMatch |-> FALSE, faults |-> FALSE, vecFault |-> FALSE]

\* Event requests of a bulk request.
BulkRequests ==
  [tid : {NoTid, Uuid(1)}, sid : Sessions \cup {None},
   aid : Agents \cup {None}, props : Props]

\* Concurrent request tasks serving ingest_event.
SingleSlots == {1, 2}

\* One ingestion in progress: the body of ingest_event, or one iteration of
\* the loop of ingest_events_bulk.  pc: the await it is suspended at
\* ("idle": no ingestion; "ok" / "fail": it has finished); bulk, auto,
\* doVec: a bulk iteration, its auto_create_traces option, the vector stage
\* is enabled; the other fields are reported in lastEv.
NoIngest == [pc |-> "idle", bulk |-> FALSE, auto |-> TRUE, doVec |-> TRUE,
             req |-> NoLast.req, result |-> "none", faults |-> FALSE, tid |-> NoTid, n |-> 0,
             newTrace |-> 0, agentMatch |-> 0, sessMatch |-> FALSE, vecFault |-> FALSE,
             embedFail |-> FALSE, log |-> <<>>]

InitEv ==
  /\ traces = <<>>
  /\ evAlloc = <<>>
  /\ evs = {}
  /\ edges = {}
  /\ evVec = {}
  /\ lastEv = NoLast
  /\ bpc = "idle"
  /\ blen = 0
  /\ bauto = TRUE
  /\ bgen = TRUE
  /\ bidx = 1
  /\ bingested = 0
  /\ bfailed = 0
  /\ btraceIds = <<>>
  /\ berrors = <<>>
  /\ brec = [i \in 1..MaxBatch |-> NoRec]
  /\ bcur = NoIngest
  /\ sp = [p \in SingleSlots |-> NoIngest]
  /\ evStarted = 0

InitQuery ==
  /\ uploadCount = 0
  /\ lastUpload = NoUpload
  /\ qpc = "idle"
  /\ qReq = NoQuery
  /\ qVecSnap = NoRead
  /\ qGraphSnap = NoRead
  /\ qTypes = {}
  /\ qRels = {}

InitOnt == active = NoSnapshot /\ InitQuery
\* At startup the reasoner holds the schema persisted in the database, if any.
InitOntStartup == active \in {NoSnapshot, [ver |-> 0, sch |-> SchemaA]} /\ InitQuery

\* At startup the reasoner holds the persisted schema of the entity and
\* relation handlers, if any.
InitOntRel == active \in {NoSnapshot, [ver |-> 0, sch |-> RelSchema]} /\ InitQuery

InitFn ==
  /\ fnSch = SchemaB
  /\ fnArg = "none"
  /\ fnOut = "none"

Init == InitRel /\ InitEv /\ InitOnt /\ InitFn
InitRelSpec == InitRel /\ InitEv /\ InitOntRel /\ InitFn
\* A server whose database holds the persisted schema of the handlers.
InitRelLoaded == InitRelSpec /\ active # NoSnapshot

\* Room for one more event request.
EvRoom == evStarted < MaxEvents /\ Len(traces) < MaxTraces

\* Trace resolution of ingest_event (bulk = FALSE) and of the loop body of
\* ingest_events_bulk (bulk = TRUE) up to its first query: a given trace_id
\* is used as is; in the bulk loop with auto_create_traces off, an event
\* without trace_id is an error; otherwise get_or_create_trace_by_session
\* (session_id given) or create_trace_for_session("default", agent_id).
\* agentMatch, sessMatch: the traces of the agent / session at that time.
IngestBegin(req, bulk, auto, doVec) ==
  [pc |-> IF req.tid # NoTid THEN "create_event"
          ELSE IF bulk /\ ~auto THEN "fail"
          ELSE IF req.sid # None THEN "sel_session" ELSE "create_trace",
   bulk |-> bulk, auto |-> auto, doVec |-> doVec, req |-> req, result |-> "none",
   faults |-> FALSE, tid |-> req.tid, n |-> 0, newTrace |-> 0,
   agentMatch |-> IF req.aid # None /\ AgentMatches(req.aid) # {} THEN MaxOf(AgentMatches(req.aid)) ELSE 0,
   sessMatch |-> req.sid # None /\ SessionMatches(req.sid) # {},
   vecFault |-> FALSE, embedFail |-> FALSE,
   log |-> <<[step |-> "resolve", evExists |-> FALSE]>>]

\* The stores an ingestion step writes.
EvStores == [traces |-> traces, evAlloc |-> evAlloc, evs |-> evs, edges |-> edges,
             evVec |-> evVec, coll |-> collections]
StepOut(pr, g) == [pr |-> pr, g |-> g]
\* A query error returned with `?`.
IngestFail(pr) == [pr EXCEPT !.pc = "fail", !.faults = TRUE]

\* Outcomes [pr, g] of the await an ingestion pr is suspended at:
\* sel_session / sel_agent: the SELECTs of get_or_create_trace_by_session;
\* create_trace: the CREATE of create_trace_for_session; create_event and
\* relate: the two queries of create_event_entity, followed by the encode of
\* extract_text_from_json; vec_exists, vec_create, vec_upsert: the three
\* Qdrant calls of store_event_vector, whose error is dropped (.ok()).
\* create_collection checks collection_exists itself and is Ok when the
\* collection exists (created meanwhile); when that check errs it tries to
\* create the collection, which fails if it exists.
IngestStep(pr) ==
  LET g == EvStores
      req == pr.req IN
  CASE pr.pc = "sel_session" ->
         {StepOut(IF l = LErr THEN IngestFail(pr)
                  ELSE IF l = LNone
                       THEN [pr EXCEPT !.pc = IF req.aid # None THEN "sel_agent" ELSE "create_trace"]
                  ELSE [pr EXCEPT !.pc = "create_event", !.tid = l], g)
           : l \in Lookup(SessionMatches(req.sid))}
    [] pr.pc = "sel_agent" ->
         {StepOut(IF l = LErr THEN IngestFail(pr)
                  ELSE IF l = LNone THEN [pr EXCEPT !.pc = "create_trace"]
                  ELSE [pr EXCEPT !.pc = "create_event", !.tid = l], g)
           : l \in Lookup(AgentMatches(req.aid))}
    [] pr.pc = "create_trace" ->
         {StepOut(IngestFail(pr), g),
          StepOut([pr EXCEPT !.pc = "create_event", !.tid = Uuid(Len(traces) + 1),
                             !.newTrace = Len(traces) + 1],
                  [g EXCEPT !.traces = Append(traces,
                      NewTrace(IF req.sid = None THEN DefaultSession ELSE req.sid, req.aid))])}
    [] pr.pc = "create_event" ->
         LET n == Len(evAlloc) + 1
             pr1 == [pr EXCEPT !.n = n, !.log = Append(@, [step |-> "create_event", evExists |-> FALSE])]
             g1 == [g EXCEPT !.evAlloc = Append(evAlloc, pr.tid)] IN
         {StepOut(IF c = "err" THEN IngestFail(pr1)
                  ELSE [pr1 EXCEPT !.pc = "relate", !.faults = c # "ok"],
                  IF c = "ok" THEN [g1 EXCEPT !.evs = evs \cup {n}] ELSE g1)
           : c \in CreateEventOutcomes(req.props)}
    [] pr.pc = "relate" ->
         LET pr1 == [pr EXCEPT !.log = Append(@, [step |-> "relate", evExists |-> pr.n \in evs])] IN
         UNION {
           IF rel = "err" THEN {StepOut(IngestFail(pr1), g)}
           ELSE LET pr2 == [pr1 EXCEPT !.faults = @ \/ rel # "ok"]
                    g2 == IF rel = "ok" THEN [g EXCEPT !.edges = edges \cup {<<pr.tid, pr.n>>}] ELSE g IN
                IF ~(pr.doVec /\ HasText(req.props)) THEN {StepOut([pr2 EXCEPT !.pc = "ok"], g2)}
                ELSE {StepOut([pr2 EXCEPT !.pc = "ok", !.embedFail = TRUE], g2),
                      StepOut([pr2 EXCEPT !.pc = "vec_exists"], g2)}
         : rel \in RelateOutcomes(pr.tid, pr.n \in evs)}
    [] pr.pc = "vec_exists" ->
         LET pr1 == [pr EXCEPT !.log = Append(@, [step |-> "vector", evExists |-> pr.n \in evs])] IN
         {StepOut([pr1 EXCEPT !.pc = "ok", !.vecFault = TRUE], g),
          StepOut([pr1 EXCEPT !.pc = IF EventsCollection \in collections THEN "vec_upsert" ELSE "vec_create"], g)}
    [] pr.pc = "vec_create" ->
         {StepOut([pr EXCEPT !.pc = "ok", !.vecFault = TRUE], g)}
         \cup (IF EventsCollection \in collections
               THEN {StepOut([pr EXCEPT !.pc = "vec_upsert"], g)}
               ELSE {StepOut([pr EXCEPT !.pc = "vec_upsert"],
                             [g EXCEPT !.coll = collections \cup {EventsCollection}])})
    [] pr.pc = "vec_upsert" ->
         {StepOut([pr EXCEPT !.pc = "ok", !.vecFault = TRUE], g)}
         \cup (IF EventsCollection \in collections
               THEN {StepOut([pr EXCEPT !.pc = "ok"], [g EXCEPT !.evVec = evVec \cup {pr.n}])}
               ELSE {})

ApplyStores(g) ==
  /\ traces' = g.traces
  /\ evAlloc' = g.evAlloc
  /\ evs' = g.evs
  /\ edges' = g.edges
  /\ evVec' = g.evVec
  /\ collections' = g.coll

IngestDone(pr) == pr.pc \in {"ok", "fail"}

\* The response of ingest_event.
IngestSummary(pr) ==
  [req |-> pr.req, result |-> IF pr.pc = "ok" THEN "ok" ELSE "err", faults |-> pr.faults,
   tid |-> pr.tid, n |-> pr.n, newTrace |-> pr.newTrace, agentMatch |-> pr.agentMatch,
   sessMatch |-> pr.sessMatch, vecFault |-> pr.vecFault, embedFail |-> pr.embedFail, log |-> pr.log]

\* handlers::ingest_event: a request arrives at a free task.
IngestEventStart(p) ==
  /\ sp[p].pc = "idle"
  /\ EvRoom
  /\ \E req \in Requests : sp' = [sp EXCEPT ![p] = IngestBegin(req, FALSE, TRUE, TRUE)]
  /\ evStarted' = evStarted + 1
  /\ UNCHANGED <<traces, evAlloc, evs, edges, evVec, lastEv, bcur,
                 bpc, blen, bauto, bgen, bidx, bingested, bfailed, btraceIds, berrors, brec>>
  /\ UNCHANGED relVars
  /\ UNCHANGED <<ontVars, fnVars>>

\* handlers::ingest_event: the task resumes at its await; when the handler
\* finishes its response is recorded.
IngestEventStep(p) ==
  /\ sp[p].pc # "idle"
  /\ \E o \in IngestStep(sp[p]) :
       /\ ApplyStores(o.g)
       /\ IF IngestDone(o.pr)
          THEN /\ lastEv' = IngestSummary(o.pr)
               /\ sp' = [sp EXCEPT ![p] = NoIngest]
          ELSE /\ sp' = [sp EXCEPT ![p] = o.pr]
               /\ UNCHANGED lastEv
  /\ UNCHANGED <<bcur, evStarted, bpc, blen, bauto, bgen, bidx, bingested, bfailed, btraceIds, berrors, brec>>
  /\ UNCHANGED <<entType, entVec, relations, relDel, lastEnt, entDel, lastDel, hp>>
  /\ UNCHANGED <<ontVars, fnVars>>

\* ingest_events_bulk: if !trace_ids.contains(&trace_id) { trace_ids.push(trace_id) }
AddTraceIdNoDedup(ids, t) == Append(ids, t)
AddTraceId(ids, t) ==
  IF \E j \in 1..Len(ids) : ids[j] = t THEN ids ELSE Append(ids, t)

\* handlers::ingest_events_bulk: the request arrives (events, options).
BulkStart ==
  /\ bpc = "idle"
  /\ \E n \in 1..MaxBatch, auto \in BOOLEAN, gen \in BOOLEAN :
       /\ bpc' = "run"
       /\ blen' = n
       /\ bauto' = auto
       /\ bgen' = gen
       /\ bidx' = 1
       /\ bingested' = 0
       /\ bfailed' = 0
       /\ btraceIds' = <<>>
       /\ berrors' = <<>>
       /\ brec' = [i \in 1..MaxBatch |-> NoRec]
  /\ UNCHANGED <<traces, evAlloc, evs, edges, evVec, lastEv, sp, bcur, evStarted>>
  /\ UNCHANGED relVars
  /\ UNCHANGED <<ontVars, fnVars>>

\* ingest_events_bulk: the end of one iteration of the loop body for the
\* ingestion pr: `continue` after a resolution error, or the Ok / Err arm of
\* create_event_entity.
BulkRecord(pr) ==
  /\ bidx' = bidx + 1
  /\ IF pr.pc = "ok"
     THEN /\ bingested' = bingested + 1
          /\ btraceIds' = AddTraceId(btraceIds, pr.tid)
          /\ UNCHANGED <<bfailed, berrors>>
     ELSE /\ bfailed' = bfailed + 1
          /\ berrors' = Append(berrors, bidx)
          /\ UNCHANGED <<bingested, btraceIds>>
  /\ brec' = [brec EXCEPT ![bidx] =
                [outcome |-> IF pr.pc = "ok" THEN "ok" ELSE "fail",
                 sid |-> pr.req.sid, tidGiven |-> pr.req.tid # NoTid, tid |-> pr.tid,
                 n |-> pr.n, newTrace |-> pr.newTrace # 0, sessMatch |-> pr.sessMatch,
                 faults |-> pr.faults, vecFault |-> pr.vecFault]]
  /\ bcur' = NoIngest

\* handlers::ingest_events_bulk: the loop reaches the event at index bidx.
BulkStep ==
  /\ bpc = "run"
  /\ bidx <= blen
  /\ bcur.pc = "idle"
  /\ EvRoom
  /\ \E req \in BulkRequests :
       LET pr == IngestBegin(req, TRUE, bauto, bgen) IN
       IF IngestDone(pr) THEN BulkRecord(pr)
       ELSE /\ bcur' = pr
            /\ UNCHANGED <<bidx, bingested, bfailed, btraceIds, berrors, brec>>
  /\ evStarted' = evStarted + 1
  /\ UNCHANGED <<traces, evAlloc, evs, edges, evVec, lastEv, sp, bpc, blen, bauto, bgen>>
  /\ UNCHANGED relVars
  /\ UNCHANGED <<ontVars, fnVars>>

\* handlers::ingest_events_bulk: the loop body resumes at its await.
BulkEventStep ==
  /\ bpc = "run"
  /\ bcur.pc # "idle"
  /\ \E o \in IngestStep(bcur) :
       /\ ApplyStores(o.g)
       /\ IF IngestDone(o.pr) THEN BulkRecord(o.pr)
          ELSE /\ bcur' = o.pr
               /\ UNCHANGED <<bidx, bingested, bfailed, btraceIds, berrors, brec>>
  /\ UNCHANGED <<lastEv, sp, evStarted, bpc, blen, bauto, bgen>>
  /\ UNCHANGED <<entType, entVec, relations, relDel, lastEnt, entDel, lastDel, hp>>
  /\ UNCHANGED <<ontVars, fnVars>>

\* handlers::ingest_events_bulk: the loop ends and the response is returned.
BulkFinish ==
  /\ bpc = "run"
  /\ bidx > blen
  /\ bcur.pc = "idle"
  /\ bpc' = "done"
  /\ UNCHANGED <<traces, evAlloc, evs, edges, evVec, lastEv, sp, bcur, evStarted, blen, bauto, bgen,
                 bidx, bingested, bfailed, btraceIds, berrors, brec>>
  /\ UNCHANGED relVars
  /\ UNCHANGED <<ontVars, fnVars>>

\* handlers::upload_schema: load (parse and validate) the document; on an
\* error return 400 before the write lock is taken; otherwise build the
\* reasoner and swap it in under the write lock.
UploadSchemaDoc(doc) ==
  /\ uploadCount < MaxUploads
  /\ LET l == LoadSchema(doc) IN
       /\ uploadCount' = uploadCount + 1
       /\ IF l.ok
          THEN /\ active' = [ver |-> uploadCount + 1, sch |-> l.sch]
               /\ lastUpload' = [status |-> 200, doc |-> doc, before |-> active]
          ELSE /\ UNCHANGED active
               /\ lastUpload' = [status |-> 400, doc |-> doc, before |-> active]
  /\ UNCHANGED <<qpc, qReq, qVecSnap, qGraphSnap, qTypes, qRels>>
UploadSchema == \E doc \in UploadDocs : UploadSchemaDoc(doc)

\* QueryCoordinator::execute (HybridQuery::Combined): the request arrives;
\* one combined query per behaviour.
QueryStart ==
  /\ qpc = "idle"
  /\ \E req \in QueryRequests :
       /\ qReq' = req
       /\ qpc' = "vector"
  /\ UNCHANGED <<active, uploadCount, lastUpload, qVecSnap, qGraphSnap, qTypes, qRels>>

\* execute_vector_query: embed the query text (error: the query fails),
\* expand the entity type under a read lock of its own, search and fetch
\* the entities (a SurrealDB error fails the query).
QueryVector ==
  /\ qpc = "vector"
  /\ \E embOk \in BOOLEAN, dbOk \in BOOLEAN :
       IF ~embOk
       THEN /\ qpc' = "failed"
            /\ UNCHANGED <<qVecSnap, qTypes>>
       ELSE /\ IF qReq.expandTypes
               THEN /\ qVecSnap' = active.ver
                    /\ qTypes' = ExpandEntityTypes(active, qReq.etype)
               ELSE /\ qVecSnap' = NoRead
                    /\ qTypes' = {qReq.etype}
            /\ qpc' = IF ~dbOk THEN "failed"
                      ELSE IF qReq.hasGraph THEN "graph" ELSE "done"
  /\ UNCHANGED <<active, uploadCount, lastUpload, qReq, qGraphSnap, qRels>>

\* execute_graph_query: expand the relation types under a read lock of
\* its own (when expand_relations and relation_types is not empty), then
\* traverse (a SurrealDB error fails the query); merge_results follows.
QueryGraph ==
  /\ qpc = "graph"
  /\ \E dbOk \in BOOLEAN :
       /\ IF qReq.expandRels /\ qReq.rts # {}
          THEN /\ qGraphSnap' = active.ver
               /\ qRels' = ExpandRelationTypes(active, qReq.rts)
          ELSE /\ qGraphSnap' = NoRead
               /\ qRels' = qReq.rts
       /\ qpc' = IF dbOk THEN "done" ELSE "failed"
  /\ UNCHANGED <<active, uploadCount, lastUpload, qReq, qVecSnap, qTypes>>

NextOnt ==
  (UploadSchema \/ QueryStart \/ QueryVector \/ QueryGraph)
  /\ UNCHANGED <<relVars, evVars, fnVars>>

\* ---------------------------------------------------------------------
\* Pure functions of the ontology applied to bounded inputs.
\* ---------------------------------------------------------------------
OntTypeIds == {"Agent", "LLMAgent", "HumanAgent"}
OntRelIds == {"executes", "knows"}
\* Domain and range ids of the relation types.
OntEndIds == {"Agent", "HumanAgent"}

\* Every schema over the given type and relation ids: declared subsets,
\* parents, domains, ranges, inverses and symmetric flags; ids that are
\* not declared are unresolved references.
SchemaUniverse(tids, eids, rids, symFlags) ==
  UNION {
    {MkSchema(ts, par, rs, dm, rg, iv, sy) :
       par \in [ts -> tids \cup {NoParent}], dm \in [rs -> eids], rg \in [rs -> eids],
       iv \in [rs -> rids \cup {NoInverse}], sy \in [rs -> symFlags]}
  : ts \in SUBSET tids, rs \in SUBSET rids}

\* The schemas of SchemaUniverse that validate, generated with resolved
\* parents, domains, ranges and inverses.
ValidSchemaUniverse(tids, eids, rids, symFlags) ==
  {sc \in UNION {
     {MkSchema(ts, par, rs, dm, rg, iv, sy) :
        par \in [ts -> ts \cup {NoParent}], dm \in [rs -> ts \cap eids], rg \in [rs -> ts \cap eids],
        iv \in [rs -> rs \cup {NoInverse}], sy \in [rs -> symFlags]}
   : ts \in SUBSET tids, rs \in SUBSET rids}
   : ValidateSchema(sc)}

\* The other state of the server stays at its initial value.
InitFnBase == InitRel /\ InitEv /\ InitOnt

\* OntologySchema::validate applied to a schema.
InitValidate ==
  /\ InitFnBase
  /\ fnSch \in SchemaUniverse(OntTypeIds, OntEndIds, OntRelIds, {FALSE})
  /\ fnArg = "none"
  /\ fnOut = "none"
ApplyValidate ==
  /\ fnOut = "none"
  /\ fnOut' = IF ValidateSchema(fnSch) THEN "ok" ELSE "err"
  /\ UNCHANGED <<fnSch, fnArg>>
  /\ UNCHANGED <<relVars, evVars, ontVars>>
ValidateSpec == InitValidate /\ [][ApplyValidate]_vars

\* OntologySchema::get_subtypes and get_supertypes applied to a type of a
\* valid schema.
NoHierarchy == [sub |-> {}, sup |-> <<>>]
InitHierarchy ==
  /\ InitFnBase
  /\ fnSch \in ValidSchemaUniverse(OntTypeIds, OntEndIds, {}, {FALSE})
  /\ fnArg \in fnSch.types
  /\ fnOut = NoHierarchy
ApplyHierarchy ==
  /\ fnOut = NoHierarchy
  /\ fnOut' = [sub |-> GetSubtypes(fnSch, fnArg), sup |-> GetSupertypes(fnSch, fnArg)]
  /\ UNCHANGED <<fnSch, fnArg>>
  /\ UNCHANGED <<relVars, evVars, ontVars>>
HierarchySpec == InitHierarchy /\ [][ApplyHierarchy]_vars

\* ---------------------------------------------------------------------
\* Entity validation (OntologyValidator::validate_entity) over a schema
\* with entity types Agent and LLMAgent(parent Agent), each with its
\* property definitions and constraints.
\* ---------------------------------------------------------------------
VTypes == {"Agent", "LLMAgent"}
VParent == [t \in VTypes |-> IF t = "LLMAgent" THEN "Agent" ELSE NoParent]

\* PropertyDefinition {name, property_type, required, cardinality}
PropDef(n, pt, rq, cd) == [name |-> n, ptype |-> pt, required |-> rq, card |-> cd]
NoPropDef == PropDef("", "none", FALSE, "Many")

\* Constraint: ValueRange {min, max}, Pattern, Enum, StringLength {min,
\* max} (-1: None), Custom.
Cons(k, lo, hi, vs, pat) == [kind |-> k, lo |-> lo, hi |-> hi, vals |-> vs, pat |-> pat]
NoCons == Cons("none", 0, 0, {}, "")
ValueRange(lo, hi) == Cons("ValueRange", lo, hi, {}, "")
EnumCons(vs) == Cons("Enum", 0, 0, vs, "")
StringLength(lo, hi) == Cons("StringLength", lo, hi, {}, "")
PatternCons(p) == Cons("Pattern", 0, 0, {}, p)

\* JSON values of properties (strings carry their length).
JStr(x, l) == [kind |-> "str", s |-> x, n |-> l]
JNum(v) == [kind |-> "num", s |-> "", n |-> v]
JArr(k) == [kind |-> "arr", s |-> "", n |-> k]

\* Schema of the validator: props[t] and cons[t] are Vecs.
VSchema(pa, pl, ca, cl) ==
  [props |-> [t \in VTypes |-> IF t = "Agent" THEN pa ELSE pl],
   cons |-> [t \in VTypes |-> IF t = "Agent" THEN ca ELSE cl]]

\* EntityType::get_all_properties: own properties, then the parent's.
RECURSIVE AllProps(_, _)
AllProps(s, t) ==
  s.props[t] \o (IF VParent[t] # NoParent /\ VParent[t] \in VTypes THEN AllProps(s, VParent[t]) ELSE <<>>)

\* all_properties.iter().find(|p| p.name == name)
FindProp(all, nm) ==
  IF \E i \in 1..Len(all) : all[i].name = nm
  THEN all[CHOOSE i \in 1..Len(all) : all[i].name = nm /\ \A j \in 1..(i - 1) : all[j].name # nm]
  ELSE NoPropDef

\* validate_property_type
PropTypeMatches(v, pt) ==
  CASE pt = "String" -> v.kind = "str"
    [] pt = "Number" -> v.kind = "num"
    [] pt = "Boolean" -> v.kind = "bool"
    [] pt = "DateTime" -> v.kind = "str"
    [] pt = "Reference" -> v.kind = "str"
    [] pt = "Embedding" -> v.kind = "arr"
    [] pt = "Object" -> v.kind = "obj"
    [] pt = "Array" -> v.kind = "arr"

\* validate_cardinality
CardCount(v) == IF v.kind = "arr" THEN v.n ELSE 1
CardValid(n, cd) ==
  CASE cd = "One" -> n = 1
    [] cd = "ZeroOrOne" -> n <= 1
    [] cd = "Many" -> TRUE
    [] cd = "OneOrMore" -> n >= 1

Err(k, p, c) == [k |-> k, prop |-> p, c |-> c]

\* Required-property loop over all_properties: one error per definition.
RECURSIVE MissingErrs(_, _)
MissingErrs(all, P) ==
  IF all = <<>> THEN EmptyBag
  ELSE (IF Head(all).required /\ Head(all).name \notin DOMAIN P
        THEN SetToBag({Err("missing", Head(all).name, NoCons)}) ELSE EmptyBag)
       (+) MissingErrs(Tail(all), P)

\* Loop over the provided properties: type and cardinality of each known one.
RECURSIVE PropErrsOf(_, _, _)
PropErrsOf(all, P, ks) ==
  IF ks = {} THEN EmptyBag
  ELSE LET p == CHOOSE k \in ks : TRUE
           d == FindProp(all, p) IN
       (IF d = NoPropDef THEN EmptyBag
        ELSE (IF PropTypeMatches(P[p], d.ptype) THEN EmptyBag
              ELSE SetToBag({Err("type", p, NoCons)}))
             (+) (IF CardValid(CardCount(P[p]), d.card) THEN EmptyBag
                  ELSE SetToBag({Err("card", p, NoCons)})))
       (+) PropErrsOf(all, P, ks \ {p})

\* validate_constraint: the properties whose value violates c; the loop
\* returns the error of the first one in HashMap order.
ConstraintViolators(c, P) ==
  {p \in DOMAIN P :
     CASE c.kind = "ValueRange" -> P[p].kind = "num" /\ (P[p].n < c.lo \/ P[p].n > c.hi)
       [] c.kind = "Enum" -> P[p].kind = "str" /\ P[p].s \notin c.vals
       [] c.kind = "StringLength" ->
            P[p].kind = "str" /\ ((c.lo # -1 /\ P[p].n < c.lo) \/ (c.hi # -1 /\ P[p].n > c.hi))
       [] OTHER -> FALSE}
ConstraintErrChoices(c, P) ==
  IF ConstraintViolators(c, P) = {} THEN {EmptyBag}
  ELSE {SetToBag({Err("constraint", p, c)}) : p \in ConstraintViolators(c, P)}

RECURSIVE ConsErrChoices(_, _)
ConsErrChoices(cs, P) ==
  IF cs = <<>> THEN {EmptyBag}
  ELSE {b1 (+) b2 : b1 \in ConstraintErrChoices(Head(cs), P), b2 \in ConsErrChoices(Tail(cs), P)}

\* OntologyValidator::validate_entity: the possible error lists (as bags);
\* the empty bag is Ok(()).
ValidateEntityOutcomes(s, t, P) ==
  IF t \notin VTypes THEN {SetToBag({Err("unknown", t, NoCons)})}
  ELSE LET all == AllProps(s, t) IN
       {MissingErrs(all, P) (+) PropErrsOf(all, P, DOMAIN P) (+) b : b \in ConsErrChoices(s.cons[t], P)}

\* Property maps over the keys ks with values in vs.
PropMaps(ks, vs) == UNION {[D -> vs] : D \in SUBSET ks}

NoValidation == [done |-> FALSE, errs |-> EmptyBag]
ApplyEntityValidation ==
  /\ ~fnOut.done
  /\ \E b \in ValidateEntityOutcomes(fnSch, fnArg.t, fnArg.P) :
       fnOut' = [done |-> TRUE, errs |-> b]
  /\ UNCHANGED <<fnSch, fnArg>>
  /\ UNCHANGED <<relVars, evVars, ontVars>>

\* validate_entity over types Agent/LLMAgent, a "name" property declared on
\* Agent and at most one constraint on each type.
ConstraintChoices == {ValueRange(1, 10), PatternCons("^a"), EnumCons({"a"}), StringLength(1, 2)}
EntityVals == {JStr("a", 1), JStr("bbb", 3), JNum(5), JNum(50)}
ConstraintVecs == {<<>>} \cup {<<c>> : c \in ConstraintChoices}
InitEntityConstraints ==
  /\ InitFnBase
  /\ fnSch \in {VSchema(<<PropDef("name", "String", rq, cd)>>, <<>>, ca, cl) :
                  rq \in BOOLEAN, cd \in {"One", "ZeroOrOne"},
                  ca \in ConstraintVecs, cl \in ConstraintVecs}
  /\ fnArg \in [t : VTypes, P : PropMaps({"name", "age"}, EntityVals)]
  /\ fnOut = NoValidation
EntityConstraintSpec == InitEntityConstraints /\ [][ApplyEntityValidation]_vars

\* validate_entity over a "name" property on Agent and an optional "age"
\* property on LLMAgent, with every required flag and cardinality.
Cardinalities == {"One", "ZeroOrOne", "Many", "OneOrMore"}
InitEntityPresence ==
  /\ InitFnBase
  /\ fnSch \in {VSchema(<<PropDef("name", "String", rq, cd)>>, pl, <<>>, <<>>) :
                  rq \in BOOLEAN, cd \in Cardinalities,
                  pl \in {<<>>} \cup {<<PropDef("age", "Number", rq2, cd2)>> :
                                        rq2 \in BOOLEAN, cd2 \in Cardinalities}}
  /\ fnArg \in [t : VTypes, P : PropMaps({"id", "name", "age"}, {JStr("a", 1), JNum(5)})]
  /\ fnOut = NoValidation
EntityPresenceSpec == InitEntityPresence /\ [][ApplyEntityValidation]_vars

\* validate_entity over properties name (String) and age (Number) on
\* Agent, with at most one constraint on Agent, and inputs with up to three
\* properties.
InitEntityErrors ==
  /\ InitFnBase
  /\ fnSch \in {VSchema(<<PropDef("name", "String", rq, cd), PropDef("age", "Number", FALSE, "ZeroOrOne")>>,
                         <<>>, ca, <<>>) :
                  rq \in BOOLEAN, cd \in {"One", "Many"}, ca \in ConstraintVecs}
  /\ fnArg \in [t : {"Agent"}, P : PropMaps({"name", "age", "score"}, EntityVals)]
  /\ fnOut = NoValidation
EntityErrorsSpec == InitEntityErrors /\ [][ApplyEntityValidation]_vars

\* RelationType::can_connect in schema s
CanConnectIn(s, rt, st, tt) ==
  /\ st \in s.types /\ SchIsSubtypeOf(s, st, s.dom[rt])
  /\ tt \in s.types /\ SchIsSubtypeOf(s, tt, s.rng[rt])

\* validate_relation also accepting the reversed direction of a symmetric
\* relation
ValidateRelationSymmetric(s, rt, st, tt) ==
  IF rt \notin s.rels THEN "unknown"
  ELSE IF CanConnectIn(s, rt, st, tt) \/ (s.sym[rt] /\ CanConnectIn(s, rt, tt, st)) THEN "ok"
  ELSE "invalid"
\* OntologyValidator::validate_relation in schema s: UnknownRelationType,
\* InvalidRelation, or Ok.
ValidateRelationIn(s, rt, st, tt) ==
  IF rt \notin s.rels THEN "unknown"
  ELSE IF CanConnectIn(s, rt, st, tt) THEN "ok"
  ELSE "invalid"

\* validate_relation(executes, source type, target type) over every valid
\* schema with types among Agent, LLMAgent, Task and a relation executes.
RelTestTypeIds == {"Agent", "LLMAgent", "Task"}
InitRelationValidation ==
  /\ InitFnBase
  /\ fnSch \in {sc \in ValidSchemaUniverse(RelTestTypeIds, RelTestTypeIds, {"executes"}, BOOLEAN) :
                  "executes" \in sc.rels}
  /\ fnArg \in [rt : {"executes"}, st : RelTestTypeIds, tt : RelTestTypeIds]
  /\ fnOut = "none"
ApplyRelationValidation ==
  /\ fnOut = "none"
  /\ fnOut' = ValidateRelationIn(fnSch, fnArg.rt, fnArg.st, fnArg.tt)
  /\ UNCHANGED <<fnSch, fnArg>>
  /\ UNCHANGED <<relVars, evVars, ontVars>>
RelationValidationSpec == InitRelationValidation /\ [][ApplyRelationValidation]_vars

\* OntologyReasoner::expand_query applied to a type of a valid schema with
\* types among Agent, LLMAgent, Task and relations executes and knows.
RelEndIds == {"Agent", "Task"}
NoExpansion == [ok |-> FALSE, types |-> {}, inferred |-> {}]
InitExpansion ==
  /\ InitFnBase
  /\ fnSch \in ValidSchemaUniverse(RelTestTypeIds, RelEndIds, OntRelIds, BOOLEAN)
  /\ fnArg \in fnSch.types
  /\ fnOut = NoExpansion
ApplyExpansion ==
  /\ fnOut = NoExpansion
  /\ fnOut' = ExpandQuery(fnSch, fnArg)
  /\ UNCHANGED <<fnSch, fnArg>>
  /\ UNCHANGED <<relVars, evVars, ontVars>>
ExpansionSpec == InitExpansion /\ [][ApplyExpansion]_vars

\* ---------------------------------------------------------------------
\* OntologyReasoner::get_transitive_closure over an adjacency map
\* HashMap<String, HashSet<String>>: one step per iteration of its loop.
\* ---------------------------------------------------------------------
ClosureNodes == {"a", "b", "c"}

\* The iteration orders of a HashSet.
Orderings(S) == {f \in [1..Cardinality(S) -> S] : \A i, j \in 1..Cardinality(S) : i # j => f[i] # f[j]}

\* entities.get(n)
Adjacent(A, n) == IF n \in DOMAIN A THEN A[n] ELSE {}

\* One pass of the while loop with the popped node cur not yet visited,
\* without pushing the targets.
VisitNoPush(st, A, cur, order) ==
  [st EXCEPT !.stack = SubSeq(st.stack, 1, Len(st.stack) - 1),
             !.visited = st.visited \cup {cur},
             !.closure = st.closure \cup Adjacent(A, cur)]
\* One pass of the while loop with the popped node cur not yet visited:
\* every target is inserted into the closure and pushed, in HashSet order.
Visit(st, A, cur, order) ==
  [st EXCEPT !.stack = SubSeq(st.stack, 1, Len(st.stack) - 1) \o order,
             !.visited = st.visited \cup {cur},
             !.closure = st.closure \cup Adjacent(A, cur)]

InitClosure ==
  /\ InitFnBase
  /\ fnSch = SchemaB
  /\ fnArg \in [A : UNION {[D -> SUBSET ClosureNodes] : D \in SUBSET ClosureNodes},
                 x : ClosureNodes, trans : BOOLEAN]
  /\ fnOut = [stack |-> <<fnArg.x>>, visited |-> {}, closure |-> {}, done |-> FALSE]
ClosureStep ==
  /\ ~fnOut.done
  /\ IF ~fnArg.trans
     THEN fnOut' = [fnOut EXCEPT !.closure = Adjacent(fnArg.A, fnArg.x), !.done = TRUE]
     ELSE IF fnOut.stack = <<>>
     THEN fnOut' = [fnOut EXCEPT !.done = TRUE]
     ELSE LET cur == fnOut.stack[Len(fnOut.stack)] IN
          IF cur \in fnOut.visited
          THEN fnOut' = [fnOut EXCEPT !.stack = SubSeq(fnOut.stack, 1, Len(fnOut.stack) - 1)]
          ELSE \E order \in Orderings(Adjacent(fnArg.A, cur)) :
                 fnOut' = Visit(fnOut, fnArg.A, cur, order)
  /\ UNCHANGED <<fnSch, fnArg>>
  /\ UNCHANGED <<relVars, evVars, ontVars>>
\* The call runs to its end.
ClosureSpec == InitClosure /\ [][ClosureStep]_vars /\ WF_vars(ClosureStep)

\* Combined query merge strategies (query/coordinator.rs). Results are
\* records [id, score, source]; scores are integers (reciprocal-rank scores
\* are scaled by RankScale so that they stay exact).
ResultIds == {"A", "B", "C"}

RankK == 60

RankScale == 61 * 62 * 63

DistinctSeqs(S) == UNION {Orderings(T) : T \in SUBSET S}

SeqIndex(s, x) == CHOOSE i \in 1..Len(s) : s[i] = x

RrfTerm(i) == RankScale \div (RankK + (i - 1) + 1)

RECURSIVE RrfVector(_, _, _)
RrfVector(v, sc, i) == IF i > Len(v) THEN sc
                       ELSE RrfVector(v, [x \in DOMAIN sc \cup {v[i]} |-> IF x = v[i] THEN RrfTerm(i) ELSE sc[x]], i + 1)

RECURSIVE RrfGraph(_, _, _)
RrfGraph(g, sc, i) == IF i > Len(g) THEN sc
                      ELSE RrfGraph(g, [x \in DOMAIN sc \cup {g[i]} |->
                                          IF x = g[i] THEN (IF x \in DOMAIN sc THEN sc[x] + RrfTerm(i) ELSE RrfTerm(i))
                                          ELSE sc[x]], i + 1)

RECURSIVE RrfGraphOverwrite(_, _, _)
RrfGraphOverwrite(g, sc, i) == IF i > Len(g) THEN sc
                      ELSE RrfGraphOverwrite(g, [x \in DOMAIN sc \cup {g[i]} |-> IF x = g[i] THEN RrfTerm(i) ELSE sc[x]], i + 1)

MergeRankFusionNoSum(v, g) ==
  LET sc == RrfGraphOverwrite(g, RrfVector(v, <<>>, 1), 1)
  IN {[id |-> x, score |-> sc[x], source |-> "Hybrid"] : x \in DOMAIN sc}

MergeRankFusion(v, g) ==
  LET sc == RrfGraph(g, RrfVector(v, <<>>, 1), 1)
  IN {[id |-> x, score |-> sc[x], source |-> "Hybrid"] : x \in DOMAIN sc}

SortedDesc(R) == {o \in Orderings(R) : \A i \in 1..Len(o) - 1 : o[i].score >= o[i + 1].score}

Truncate(s, n) == IF Len(s) <= n THEN s ELSE SubSeq(s, 1, n)

MergeLimits == {1, 3}

NoMerge == [done |-> FALSE, res |-> <<>>]

InitRankFusion == /\ InitFnBase /\ fnSch = SchemaB
  /\ fnArg \in [v : DistinctSeqs(ResultIds), g : DistinctSeqs(ResultIds), limit : MergeLimits]
  /\ fnOut = NoMerge

ApplyRankFusion ==
  /\ fnOut = NoMerge
  /\ \E o \in SortedDesc(MergeRankFusion(fnArg.v, fnArg.g)) : fnOut' = [done |-> TRUE, res |-> Truncate(o, fnArg.limit)]
  /\ UNCHANGED <<fnSch, fnArg>> /\ UNCHANGED <<relVars, evVars, ontVars>>

RankFusionSpec == InitRankFusion /\ [][ApplyRankFusion]_vars

\* Two concurrent ingest handlers resolving the same session through
\* get_or_create_trace_by_session (handlers.rs). Each handler's steps are the
\* session SELECT, the agent SELECT and create_trace_for_session; the
\* agent_trace table has a plain (non-UNIQUE) index on session_id, so CREATE
\* never conflicts.
RaceProcs == {1, 2}

RaceSession == "s"

RacePriors == {<<>>, <<[session |-> "t", agent |-> "a", status |-> "running"]>>}

RaceMatches(tbl, f) == {n \in 1..Len(tbl) : f[n]}

SessionRows(tbl, sid) == RaceMatches(tbl, [n \in 1..Len(tbl) |-> tbl[n].session = sid])

AgentRows(tbl, aid) == RaceMatches(tbl, [n \in 1..Len(tbl) |-> tbl[n].agent = aid /\ tbl[n].status = "running"])

RowLookup(matches) == {LErr, LNone} \cup (IF matches = {} THEN {} ELSE {RecStr(MaxOf(matches))})

InitTraceRace == /\ InitFnBase /\ fnSch = SchemaB
  /\ fnArg \in [aid : [RaceProcs -> {None, "a"}], prior : RacePriors]
  /\ fnOut = [pc |-> [p \in RaceProcs |-> "s1"], res |-> [p \in RaceProcs |-> NoTid], tbl |-> fnArg.prior]

SessionLookupStep(p) ==
  /\ fnOut.pc[p] = "s1"
  /\ \E l \in RowLookup(SessionRows(fnOut.tbl, RaceSession)) :
       fnOut' = [fnOut EXCEPT !.pc[p] = IF l = LErr THEN "err"
                                       ELSE IF l # LNone THEN "done"
                                       ELSE IF fnArg.aid[p] = None THEN "create" ELSE "s2",
                              !.res[p] = IF l \notin {LErr, LNone} THEN l ELSE NoTid]

AgentLookupStep(p) ==
  /\ fnOut.pc[p] = "s2"
  /\ \E l \in RowLookup(AgentRows(fnOut.tbl, fnArg.aid[p])) :
       fnOut' = [fnOut EXCEPT !.pc[p] = IF l = LErr THEN "err" ELSE IF l # LNone THEN "done" ELSE "create",
                              !.res[p] = IF l \notin {LErr, LNone} THEN l ELSE NoTid]

CreateTraceStep(p) ==
  /\ fnOut.pc[p] = "create"
  /\ \/ fnOut' = [fnOut EXCEPT !.pc[p] = "done", !.res[p] = Uuid(Len(fnOut.tbl) + 1),
                               !.tbl = Append(fnOut.tbl, [session |-> RaceSession, agent |-> fnArg.aid[p], status |-> "running"])]
     \/ fnOut' = [fnOut EXCEPT !.pc[p] = "err"]

TraceRaceStep ==
  /\ \E p \in RaceProcs : SessionLookupStep(p) \/ AgentLookupStep(p) \/ CreateTraceStep(p)
  /\ UNCHANGED <<fnSch, fnArg>> /\ UNCHANGED <<relVars, evVars, ontVars>>

TraceRaceSpec == InitTraceRace /\ [][TraceRaceStep]_vars

\* SurrealDBClient::traverse_graph over the relations of one relation type:
\* edges are a map node -> set of targets; the SELECT returns them in no
\* particular order. One step handles one entity of current_level, or ends
\* an iteration of `for _ in 0..depth`.
TravNodes == {"a", "b", "c"}

MaxDepth == 3

TravStart == "a"

InitTraverse == /\ InitFnBase /\ fnSch = SchemaB
  /\ fnArg \in [E : [TravNodes -> SUBSET TravNodes], depth : 0..MaxDepth]
  /\ fnOut = IF fnArg.depth = 0
             THEN [cur |-> <<>>, nxt |-> <<>>, visited |-> {}, res |-> <<>>, iter |-> 0, done |-> TRUE]
             ELSE [cur |-> <<TravStart>>, nxt |-> <<>>, visited |-> {}, res |-> <<>>, iter |-> 0, done |-> FALSE]

TraverseStep ==
  /\ ~fnOut.done
  /\ IF fnOut.cur = <<>>
     THEN fnOut' = [fnOut EXCEPT !.cur = fnOut.nxt, !.nxt = <<>>, !.iter = fnOut.iter + 1,
                                 !.done = (fnOut.iter + 1 = fnArg.depth \/ fnOut.nxt = <<>>)]
     ELSE LET e == Head(fnOut.cur) IN
          IF e \in fnOut.visited
          THEN fnOut' = [fnOut EXCEPT !.cur = Tail(fnOut.cur)]
          ELSE \E o \in Orderings(fnArg.E[e]) :
                 fnOut' = [fnOut EXCEPT !.cur = Tail(fnOut.cur), !.visited = fnOut.visited \cup {e},
                                        !.res = fnOut.res \o o, !.nxt = fnOut.nxt \o o]
  /\ UNCHANGED <<fnSch, fnArg>> /\ UNCHANGED <<relVars, evVars, ontVars>>

TraverseSpec == InitTraverse /\ [][TraverseStep]_vars /\ WF_vars(TraverseStep)

\* QueryCoordinator::execute_vector_query over the per-type search results.
\* Scores are small integers (only their order matters); a search outcome is
\* "err" or the hits Qdrant returns (distinct ids, descending score).
VecIds == {"e1", "e2"}

VecScores == {1, 2, 3}

NoMinScore == 0

SearchErr == [ok |-> FALSE, hits |-> <<>>]

SearchLists ==
  {<<>>} \cup {<<[id |-> i, score |-> s]>> : i \in VecIds, s \in VecScores}
  \cup {l \in {<<[id |-> i, score |-> s], [id |-> j, score |-> t]>> : i \in VecIds, j \in VecIds, s \in {1, 3}, t \in {1, 3}} : l[1].id # l[2].id}

SearchOutcomes == {SearchErr} \cup {[ok |-> TRUE, hits |-> l] : l \in {l \in SearchLists : Len(l) < 2 \/ l[1].score >= l[2].score}}

MapPut(m, k, v) == [x \in DOMAIN m \cup {k} |-> IF x = k THEN v ELSE m[x]]

RECURSIVE InsertHitsUnfiltered(_, _, _, _)
InsertHitsUnfiltered(l, m, j, minS) ==
  IF j > Len(l) THEN m
  ELSE InsertHitsUnfiltered(l, MapPut(m, l[j].id, l[j].score), j + 1, minS)

RECURSIVE InsertHits(_, _, _, _)
InsertHits(l, m, j, minS) ==
  IF j > Len(l) THEN m
  ELSE IF minS # NoMinScore /\ l[j].score < minS THEN InsertHits(l, m, j + 1, minS)
  ELSE InsertHits(l, MapPut(m, l[j].id, l[j].score), j + 1, minS)

RECURSIVE CollectScores(_, _, _, _, _)
CollectScores(sr, n, minS, m, k) ==
  IF k > n THEN [err |-> FALSE, m |-> m]
  ELSE IF ~sr[k].ok THEN CollectScores(sr, n, minS, m, k + 1)
  ELSE CollectScores(sr, n, minS, InsertHits(sr[k].hits, m, 1, minS), k + 1)

RECURSIVE CollectScoresAbort(_, _, _, _, _)
CollectScoresAbort(sr, n, minS, m, k) ==
  IF k > n THEN [err |-> FALSE, m |-> m]
  ELSE IF ~sr[k].ok THEN [err |-> TRUE, m |-> m]
  ELSE CollectScoresAbort(sr, n, minS, InsertHits(sr[k].hits, m, 1, minS), k + 1)

VecQueryErr == [done |-> TRUE, ok |-> FALSE, res |-> <<>>]

\* the vector query of a request a = [embedFail, ntypes, sr, minS, missing,
\* fetchErr, limit]: a set of [done, ok, res] outcomes
VectorQueryWith(a, collect(_, _, _, _, _)) ==
  IF a.embedFail THEN {VecQueryErr}
  ELSE LET c == collect(a.sr, a.ntypes, a.minS, <<>>, 1)
           m == c.m IN
       IF c.err \/ DOMAIN m \cap a.fetchErr # {} THEN {VecQueryErr}
       ELSE {[done |-> TRUE, ok |-> TRUE, res |-> Truncate(o, a.limit)] :
               o \in SortedDesc({[id |-> i, score |-> m[i]] : i \in DOMAIN m \ a.missing})}

VectorQueryAbortOnSearchErr(a) == VectorQueryWith(a, CollectScoresAbort)

VectorQuery(a) == VectorQueryWith(a, CollectScores)

VecLimits == {1, 2}

\* The ids a search outcome returns.
HitIds(o) == {o.hits[j].id : j \in 1..Len(o.hits)}

\* An entity's vector is upserted only into the collection of its
\* entity_type (create_entity), and update_entity never changes the type, so
\* the searches of two distinct types never return the same id.
VectorRequests ==
  {a \in [embedFail : BOOLEAN, ntypes : {1, 2}, sr : [1..2 -> SearchOutcomes], minS : {NoMinScore, 2},
          missing : {{}, {"e2"}}, fetchErr : {{}, {"e1"}}, limit : VecLimits] :
     HitIds(a.sr[1]) \cap HitIds(a.sr[2]) = {}}

NoOutcome == [done |-> FALSE, ok |-> FALSE, res |-> <<>>]

InitVectorQuery == /\ InitFnBase /\ fnSch = SchemaB
  /\ fnArg \in VectorRequests
  /\ fnOut = NoOutcome

ApplyVectorQuery ==
  /\ ~fnOut.done
  /\ fnOut' \in VectorQuery(fnArg)
  /\ UNCHANGED <<fnSch, fnArg>> /\ UNCHANGED <<relVars, evVars, ontVars>>

VectorQuerySpec == InitVectorQuery /\ [][ApplyVectorQuery]_vars

\* QueryCoordinator::traverse_outgoing, success or error only: the level
\* loop with the visited set; get_outgoing_relations fails for the entities in
\* relErr, get_entity for the targets in entErr, and either `?` aborts.
RECURSIVE TraverseOutgoingOk(_, _, _, _, _, _, _)
TraverseOutgoingOk(E, cur, visited, level, depth, relErr, entErr) ==
  IF level >= depth \/ cur = {} THEN TRUE
  ELSE LET ex == cur \ visited
           tg == UNION {E[n] : n \in ex}
           vis == visited \cup ex IN
       IF ex \cap relErr # {} \/ tg \cap entErr # {} THEN FALSE
       ELSE TraverseOutgoingOk(E, tg \ vis, vis, level + 1, depth, relErr, entErr)

CombinedVecHits == {SearchErr, [ok |-> TRUE, hits |-> <<[id |-> "e1", score |-> 3]>>],
                    [ok |-> TRUE, hits |-> <<[id |-> "e2", score |-> 1]>>]}

CombinedRequests ==
  [vec : {a \in [embedFail : BOOLEAN, ntypes : {2}, sr : [1..2 -> CombinedVecHits], minS : {NoMinScore},
                 missing : {{}}, fetchErr : {{}, {"e1"}}, limit : {2}] :
            HitIds(a.sr[1]) \cap HitIds(a.sr[2]) = {}},
   hasGraph : BOOLEAN,
   E : {e \in [TravNodes -> SUBSET TravNodes] : e["a"] \subseteq {"b"} /\ e["b"] \subseteq {"c"} /\ e["c"] = {}},
   depth : {1, 2}, relErr : {{}, {"b"}}, entErr : {{}, {"c"}}]

NoCombined == [done |-> FALSE, ok |-> FALSE, vres |-> NoOutcome]

InitCombined == /\ InitFnBase /\ fnSch = SchemaB
  /\ fnArg \in CombinedRequests
  /\ fnOut = NoCombined

\* execute_combined_query: vector query `?`, then graph query `?`, then merge
ApplyCombined ==
  /\ ~fnOut.done
  /\ \E vo \in VectorQuery(fnArg.vec) :
       fnOut' = [done |-> TRUE,
                 ok |-> vo.ok /\ (fnArg.hasGraph => TraverseOutgoingOk(fnArg.E, {TravStart}, {}, 0, fnArg.depth, fnArg.relErr, fnArg.entErr)),
                 vres |-> vo]
  /\ UNCHANGED <<fnSch, fnArg>> /\ UNCHANGED <<relVars, evVars, ontVars>>

CombinedSpec == InitCombined /\ [][ApplyCombined]_vars

\* merge_union / merge_intersection / merge_vector_priority /
\* merge_graph_priority and merge_results. Scores are scaled by ScoreScale so
\* that the graph scores 1/(i+1) and the union averages stay integers.
ScoreScale == 12

GraphScore(i) == ScoreScale \div i

VecScoreVals == {4, 8, 12}

MergeStrategies == {"Union", "Intersection", "VectorPriority", "GraphPriority"}

SeqIds(s) == {s[i].id : i \in 1..Len(s)}

SeqSet(s) == {s[i] : i \in 1..Len(s)}

RECURSIVE UnionGraph(_, _, _)
UnionGraph(g, m, i) ==
  IF i > Len(g) THEN m
  ELSE LET r == g[i] IN
       IF r.id \in DOMAIN m
       THEN UnionGraph(g, [m EXCEPT ![r.id] = [@ EXCEPT !.score = (@ + r.score) \div 2, !.source = "Hybrid"]], i + 1)
       ELSE UnionGraph(g, MapPut(m, r.id, r), i + 1)

MergeUnion(v, g) ==
  LET m == UnionGraph(g, [x \in SeqIds(v) |-> v[CHOOSE i \in 1..Len(v) : v[i].id = x]], 1)
  IN {m[x] : x \in DOMAIN m}

MergeIntersection(v, g) ==
  SelectSeq([i \in 1..Len(v) |-> [v[i] EXCEPT !.source = "Hybrid"]], LAMBDA r : r.id \in SeqIds(g))

MergeVectorPriority(v, g) ==
  [i \in 1..Len(v) |-> IF v[i].id \in SeqIds(g) THEN [v[i] EXCEPT !.source = "Hybrid"] ELSE v[i]]

VectorScoreOf(v, x) == v[CHOOSE i \in 1..Len(v) : v[i].id = x].score

MergeGraphPriorityKeepGraphScore(v, g) ==
  [i \in 1..Len(g) |-> IF g[i].id \in SeqIds(v) THEN [g[i] EXCEPT !.source = "Hybrid"] ELSE g[i]]

MergeGraphPriority(v, g) ==
  [i \in 1..Len(g) |-> IF g[i].id \in SeqIds(v)
                       THEN [g[i] EXCEPT !.score = VectorScoreOf(v, g[i].id), !.source = "Hybrid"]
                       ELSE g[i]]

\* merge_results with a graph result: the strategy's list, sorted by
\* descending score (ties in any order), truncated to the vector limit
MergeResultsOutcomes(st, v, g, limit) ==
  LET merged == CASE st = "Union" -> MergeUnion(v, g)
                  [] st = "Intersection" -> SeqSet(MergeIntersection(v, g))
                  [] st = "VectorPriority" -> SeqSet(MergeVectorPriority(v, g))
                  [] st = "GraphPriority" -> SeqSet(MergeGraphPriority(v, g))
  IN {Truncate(o, limit) : o \in SortedDesc(merged)}

VecResultLists(limit) ==
  {s \in {[i \in 1..Len(o) |-> [id |-> o[i], score |-> sc[i], source |-> "Vector"]] :
            o \in DistinctSeqs(ResultIds), sc \in [1..3 -> VecScoreVals]} :
     Len(s) <= limit /\ \A i \in 1..Len(s) - 1 : s[i].score >= s[i + 1].score}

GraphResultLists ==
  {[i \in 1..Len(o) |-> [id |-> o[i], score |-> GraphScore(i), source |-> "Graph"]] : o \in DistinctSeqs(ResultIds)}

InitMerge == /\ InitFnBase /\ fnSch = SchemaB
  /\ fnArg \in UNION {[st : MergeStrategies, v : VecResultLists(l), g : GraphResultLists, limit : {l}] : l \in {1, 2}}
  /\ fnOut = NoMerge

ApplyMerge ==
  /\ ~fnOut.done
  /\ \E o \in MergeResultsOutcomes(fnArg.st, fnArg.v, fnArg.g, fnArg.limit) : fnOut' = [done |-> TRUE, res |-> o]
  /\ UNCHANGED <<fnSch, fnArg>> /\ UNCHANGED <<relVars, evVars, ontVars>>

MergeSpec == InitMerge /\ [][ApplyMerge]_vars

\* execute_graph_query, relation types: expand_relation_types when
\* expand_relations is set and the list is non-empty, else the list as given.
InvTypeIds == {"Agent", "Task"}

GraphRelationTypes(snap, rts, expand) ==
  IF expand /\ rts # {} THEN ExpandRelationTypes(snap, rts) ELSE rts

NoRelTypes == [done |-> FALSE, rels |-> {}]

InitRelExpansion ==
  /\ InitFnBase
  /\ fnSch \in ValidSchemaUniverse(InvTypeIds, InvTypeIds, OntRelIds, {FALSE})
  /\ fnArg \in [rts : SUBSET OntRelIds, expand : BOOLEAN, loaded : BOOLEAN]
  /\ fnOut = NoRelTypes

ApplyRelExpansion ==
  /\ ~fnOut.done
  /\ fnOut' = [done |-> TRUE,
               rels |-> GraphRelationTypes(IF fnArg.loaded THEN [ver |-> 0, sch |-> fnSch] ELSE NoSnapshot,
                                           fnArg.rts, fnArg.expand)]
  /\ UNCHANGED <<fnSch, fnArg>> /\ UNCHANGED <<relVars, evVars, ontVars>>

RelExpansionSpec == InitRelExpansion /\ [][ApplyRelExpansion]_vars

\* EmbeddingManager (embeddings/manager.rs): new() builds the registry and
\* the local service; embed / embed_batch try the active plugin, then the
\* local service. An embed call records whether the plugin was called and
\* how, how often the local service was called, and the outcome.
MaxEmbedCalls == 4

EmbedConfigs == [provider : {"local", "openai"}, fallback : BOOLEAN, localInitOk : BOOLEAN]

\* EmbeddingManager::new: provider "local" needs init_local_service to succeed
\* (its `?`); otherwise init_plugin_system, which calls init_local_service
\* with `.ok()` when fallback_to_local is set.
NewManager(c) ==
  [registry |-> c.provider # "local",
   localService |-> IF c.provider = "local" THEN TRUE ELSE c.fallback /\ c.localInitOk,
   fallback |-> c.fallback]

NoEmbedCall == [prim |-> "none", fb |-> 0, res |-> "none"]

InitEmbedding ==
  /\ InitFnBase /\ fnSch = SchemaB
  /\ fnArg \in {c \in EmbedConfigs : c.provider = "local" => c.localInitOk}
  /\ fnOut = [mgr |-> NewManager(fnArg), n |-> 0, last |-> NoEmbedCall, primCalls |-> 0, fbCalls |-> 0]

\* embed (isEmpty = FALSE) and embed_batch
EmbedOutcome(mgr, isBatch, isEmpty, primaryOk) ==
  IF isBatch /\ isEmpty THEN [prim |-> "none", fb |-> 0, res |-> "empty"]
  ELSE IF mgr.registry /\ primaryOk THEN [prim |-> "ok", fb |-> 0, res |-> "primary_ok"]
  ELSE IF mgr.registry /\ ~mgr.fallback THEN [prim |-> "err", fb |-> 0, res |-> "primary_err"]
  ELSE IF ~mgr.registry
       THEN IF mgr.localService THEN [prim |-> "local", fb |-> 0, res |-> "local"]
            ELSE [prim |-> "none", fb |-> 0, res |-> "no_service"]
  ELSE IF mgr.localService THEN [prim |-> "err", fb |-> 1, res |-> "local"]
  ELSE [prim |-> "err", fb |-> 0, res |-> "no_service"]

EmbedCall ==
  /\ fnOut.n < MaxEmbedCalls
  /\ \E isBatch \in BOOLEAN, isEmpty \in BOOLEAN, primaryOk \in BOOLEAN :
       LET o == EmbedOutcome(fnOut.mgr, isBatch, isEmpty, primaryOk) IN
       fnOut' = [fnOut EXCEPT !.n = @ + 1, !.last = o,
                              !.primCalls = @ + (IF o.prim \in {"ok", "err"} THEN 1 ELSE 0),
                              !.fbCalls = @ + o.fb]
  /\ UNCHANGED <<fnSch, fnArg>> /\ UNCHANGED <<relVars, evVars, ontVars>>

EmbeddingSpec == InitEmbedding /\ [][EmbedCall]_vars

\* handlers::update_entity on one stored entity. The vector store keeps the
\* embedding computed by create_entity from the creation properties; `vec`
\* records those properties.
MaxUpdates == 2

UpdSchema == VSchema(<<PropDef("name", "String", TRUE, "One")>>, <<>>, <<>>, <<>>)

UpdPropMaps == PropMaps({"name", "x"}, {JStr("a", 1), JNum(5)})

MergeProps(old, req) == [k \in DOMAIN old \cup DOMAIN req |-> IF k \in DOMAIN req THEN req[k] ELSE old[k]]

\* entity.properties = request.properties
ReplaceProps(old, req) == req

NoUpdate == [status |-> "none", req |-> <<>>, before |-> [props |-> <<>>, updatedAt |-> 0]]

\* Concurrent update_entity calls on the entity; a call suspended after its
\* get_entity holds its modified copy of the entity (local).
UpdProcs == {1, 2}
NoUpdProc == [pc |-> "idle", req |-> <<>>, local |-> [props |-> <<>>, updatedAt |-> 0]]

InitUpdateEntity ==
  /\ InitFnBase /\ fnSch = UpdSchema
  /\ fnArg \in [t : VTypes, P0 : UpdPropMaps, loaded : BOOLEAN, exists : BOOLEAN]
  /\ fnOut = [stored |-> [props |-> fnArg.P0, updatedAt |-> 0], vec |-> fnArg.P0, n |-> 0,
              last |-> NoUpdate, proc |-> [p \in UpdProcs |-> NoUpdProc]]

\* handlers::update_entity: surreal.get_entity(id).await (500 on error, 404
\* when absent); then entity.properties = request.properties and
\* entity.updated_at = now on the copy read.
UpdateEntityGet(p) ==
  /\ fnOut.proc[p].pc = "idle"
  /\ fnOut.n < MaxUpdates
  /\ \E req \in UpdPropMaps, getErr \in BOOLEAN :
       LET fail(st) == fnOut' = [fnOut EXCEPT !.n = @ + 1,
                                   !.last = [status |-> st, req |-> req, before |-> fnOut.stored]]
       IN IF getErr THEN fail("db_error")
          ELSE IF ~fnArg.exists THEN fail("not_found")
          ELSE fnOut' = [fnOut EXCEPT !.n = @ + 1,
                           !.proc[p] = [pc |-> "write", req |-> req,
                                        local |-> [fnOut.stored EXCEPT !.props = ReplaceProps(@, req),
                                                                       !.updatedAt = fnOut.n + 1]]]
  /\ UNCHANGED <<fnSch, fnArg>> /\ UNCHANGED <<relVars, evVars, ontVars>>

\* update_entity: with a reasoner loaded, validate_entity under the read
\* lock (400 on error); then surreal.update_entity(id, &entity).await
\* writes the copy with .update(..).content(..) (500 on error); 204.
UpdateEntityWrite(p) ==
  /\ fnOut.proc[p].pc = "write"
  /\ \E dbErr \in BOOLEAN :
       LET u == fnOut.proc[p]
           done(st, stored) ==
             fnOut' = [fnOut EXCEPT !.stored = stored, !.proc[p] = NoUpdProc,
                         !.last = [status |-> st, req |-> u.req, before |-> fnOut.stored]]
       IN \E b \in (IF fnArg.loaded THEN ValidateEntityOutcomes(fnSch, fnArg.t, u.local.props) ELSE {EmptyBag}) :
            IF b # EmptyBag THEN done("invalid", fnOut.stored)
            ELSE IF dbErr THEN done("db_error", fnOut.stored)
            ELSE done("ok", u.local)
  /\ UNCHANGED <<fnSch, fnArg>> /\ UNCHANGED <<relVars, evVars, ontVars>>

UpdateEntityCall == \E p \in UpdProcs : UpdateEntityGet(p) \/ UpdateEntityWrite(p)

UpdateEntitySpec == InitUpdateEntity /\ [][UpdateEntityCall]_vars

\* handlers::create_entity up to the store write: with a reasoner loaded,
\* validate_entity under its read lock (dropped before the write); then the text of the
\* properties is encoded (an encode error is logged, the entity is stored
\* without embedding).  hasText: extract_text_from_properties is non-empty;
\* propsValid: the properties pass validate_entity's property checks;
\* embedOk: encode succeeds.
CreateEntityStart(p) ==
  /\ hp[p].pc = "idle"
  /\ Len(entType) + Busy({"ce_write"}) < MaxEntities
  /\ \E t \in ReqEntityTypes, hasText \in BOOLEAN, propsValid \in BOOLEAN :
       IF active # NoSnapshot /\ ~ValidateEntity(active.sch, t, propsValid)
       THEN /\ lastEnt' = [NoEnt EXCEPT !.result = "validation_error"]
            /\ UNCHANGED <<entType, entVec, collections, relations, relDel, entDel, lastDel, hp>>
       ELSE \E embedOk \in (IF hasText THEN BOOLEAN ELSE {TRUE}) :
            /\ hp' = [hp EXCEPT ![p] = [NoHandler EXCEPT !.pc = "ce_write", !.t = t,
                                          !.emb = hasText /\ embedOk,
                                          !.embFail = hasText /\ ~embedOk]]
            /\ UNCHANGED <<entType, entVec, collections, relations, relDel, lastEnt, entDel, lastDel>>

\* create_entity: surreal.create_entity(&entity).await (dbOk: it succeeds);
\* without an embedding the handler returns here.
CreateEntityWrite(p) ==
  /\ hp[p].pc = "ce_write"
  /\ \E dbOk \in BOOLEAN :
       LET h == hp[p]
           id == Len(entType) + 1 IN
       IF ~dbOk
       THEN /\ lastEnt' = [NoEnt EXCEPT !.result = "db_error", !.embedFail = h.embFail]
            /\ hp' = [hp EXCEPT ![p] = NoHandler]
            /\ UNCHANGED <<entType, entVec, collections, relations, relDel, entDel, lastDel>>
       ELSE /\ entType' = Append(entType, h.t)
            /\ IF h.emb
               THEN /\ hp' = [hp EXCEPT ![p] = [h EXCEPT !.pc = "ce_exists", !.id = id]]
                    /\ UNCHANGED lastEnt
               ELSE /\ lastEnt' = [result |-> EntityWriteResult(FALSE), id |-> id,
                                   embedFail |-> h.embFail, vecFault |-> FALSE]
                    /\ hp' = [hp EXCEPT ![p] = NoHandler]
            /\ UNCHANGED <<entVec, collections, relations, relDel, entDel, lastDel>>

\* create_entity: qdrant.collection_exists(type).await.unwrap_or(false)
\* (ex: "ok" is the truthful answer, "err" an error read as false).
CreateEntityExists(p) ==
  /\ hp[p].pc = "ce_exists"
  /\ \E ex \in {"ok", "err"} :
       LET h == hp[p] IN
       hp' = [hp EXCEPT ![p] =
                IF ex = "ok" /\ h.t \in collections
                THEN [h EXCEPT !.pc = "ce_upsert"]
                ELSE [h EXCEPT !.pc = "ce_create", !.fault = ex = "err"]]
  /\ UNCHANGED <<entType, entVec, collections, relations, relDel, lastEnt, entDel, lastDel>>

\* create_entity: qdrant.create_collection(type, dim).await ... .ok().
\* QdrantClient::create_collection first calls collection_exists itself
\* (chk: "ok" is the truthful answer, "err" an error, logged and ignored):
\* an existing collection is Ok; otherwise the collection is created, which
\* fails on an error (cr = FALSE) or when it exists by then.
CreateEntityCollection(p) ==
  /\ hp[p].pc = "ce_create"
  /\ \E chk \in {"ok", "err"}, cr \in BOOLEAN :
       LET h == hp[p] IN
       IF chk = "ok" /\ h.t \in collections
       THEN /\ hp' = [hp EXCEPT ![p] = [h EXCEPT !.pc = "ce_upsert"]]
            /\ UNCHANGED collections
       ELSE IF cr /\ h.t \notin collections
       THEN /\ collections' = collections \cup {h.t}
            /\ hp' = [hp EXCEPT ![p] = [h EXCEPT !.pc = "ce_upsert"]]
       ELSE /\ hp' = [hp EXCEPT ![p] = [h EXCEPT !.pc = "ce_upsert", !.fault = TRUE]]
            /\ UNCHANGED collections
  /\ UNCHANGED <<entType, entVec, relations, relDel, lastEnt, entDel, lastDel>>

\* create_entity: qdrant.upsert_embedding(type, id, embedding).await ... .ok()
\* (up: the upsert succeeds; it fails when the collection does not exist);
\* the handler returns 200.
CreateEntityUpsert(p) ==
  /\ hp[p].pc = "ce_upsert"
  /\ \E up \in BOOLEAN :
       LET h == hp[p]
           stored == up /\ h.t \in collections
           fault == h.fault \/ ~stored IN
       /\ entVec' = IF stored THEN entVec \cup {h.id} ELSE entVec
       /\ lastEnt' = [result |-> EntityWriteResult(fault), id |-> h.id,
                      embedFail |-> h.embFail, vecFault |-> fault]
       /\ hp' = [hp EXCEPT ![p] = NoHandler]
  /\ UNCHANGED <<entType, collections, relations, relDel, entDel, lastDel>>

\* handlers::create_relation: surreal.get_entity(source).await (getOk: the
\* query succeeds; an error is 500, a missing entity 404).
CreateRelationSource(p) ==
  /\ hp[p].pc = "idle"
  /\ Len(relations) + Busy({"cr_target", "cr_validate", "cr_write"}) < MaxRelations
  /\ \E s \in 0..Len(entType), tg \in 0..Len(entType), rt \in ReqRelTypes, getOk \in BOOLEAN :
       IF getOk /\ EntityExists(s)
       THEN hp' = [hp EXCEPT ![p] = [NoHandler EXCEPT !.pc = "cr_target", !.id = s, !.tg = tg, !.rt = rt]]
       ELSE UNCHANGED hp
  /\ UNCHANGED <<entType, entVec, collections, relations, relDel, lastEnt, entDel, lastDel>>

\* create_relation: surreal.get_entity(target).await (getOk: the query
\* succeeds; an error is 500, a missing entity 404).
CreateRelationTarget(p) ==
  /\ hp[p].pc = "cr_target"
  /\ \E getOk \in BOOLEAN :
       LET h == hp[p] IN
       hp' = [hp EXCEPT ![p] =
                IF getOk /\ EntityExists(h.tg)
                THEN [h EXCEPT !.pc = "cr_validate"]
                ELSE NoHandler]
  /\ UNCHANGED <<entType, entVec, collections, relations, relDel, lastEnt, entDel, lastDel>>

\* create_relation: state.reasoner.read().await; with a schema loaded,
\* validate_relation on the entity types fetched above (400 on error).
CreateRelationValidate(p) ==
  /\ hp[p].pc = "cr_validate"
  /\ LET h == hp[p] IN
     hp' = [hp EXCEPT ![p] =
              IF active # NoSnapshot =>
                   ValidateRelationIn(active.sch, h.rt, entType[h.id], entType[h.tg]) = "ok"
              THEN [h EXCEPT !.pc = "cr_write"]
              ELSE NoHandler]
  /\ UNCHANGED <<entType, entVec, collections, relations, relDel, lastEnt, entDel, lastDel>>

\* create_relation: surreal.create_relation(&relation).await (dbOk: it
\* succeeds).
CreateRelationWrite(p) ==
  /\ hp[p].pc = "cr_write"
  /\ \E dbOk \in BOOLEAN :
       LET h == hp[p] IN
       /\ relations' = IF dbOk THEN Append(relations, [rt |-> h.rt, src |-> h.id, tgt |-> h.tg])
                       ELSE relations
       /\ hp' = [hp EXCEPT ![p] = NoHandler]
  /\ UNCHANGED <<entType, entVec, collections, relDel, lastEnt, entDel, lastDel>>

\* delete_entity does not touch relation records: the relation ids deleted
\* by deleting entity e.
RelationsAfterDeleteCascading(rels, dels, e) ==
  dels \cup {i \in 1..Len(rels) : rels[i].src = e \/ rels[i].tgt = e}
RelationsAfterDelete(rels, dels, e) == dels

\* handlers::delete_entity: surreal.get_entity(id).await (getOk: the query
\* succeeds; 500 on error, 404 when absent).
DeleteEntityGet(p) ==
  /\ hp[p].pc = "idle"
  /\ \E e \in 0..Len(entType), getOk \in BOOLEAN :
       IF ~getOk
       THEN /\ lastDel' = [NoDel EXCEPT !.result = "db_error"]
            /\ UNCHANGED hp
       ELSE IF ~EntityExists(e)
       THEN /\ lastDel' = [NoDel EXCEPT !.result = "not_found"]
            /\ UNCHANGED hp
       ELSE /\ hp' = [hp EXCEPT ![p] = [NoHandler EXCEPT !.pc = "de_delete", !.id = e, !.t = entType[e]]]
            /\ UNCHANGED lastDel
  /\ UNCHANGED <<entType, entVec, collections, relations, relDel, lastEnt, entDel>>

\* delete_entity: surreal.delete_entity(id).await (dbOk: it succeeds;
\* deleting a record that is already gone succeeds).
DeleteEntityRecord(p) ==
  /\ hp[p].pc = "de_delete"
  /\ \E dbOk \in BOOLEAN :
       LET h == hp[p] IN
       IF ~dbOk
       THEN /\ lastDel' = [NoDel EXCEPT !.result = "db_error"]
            /\ hp' = [hp EXCEPT ![p] = NoHandler]
            /\ UNCHANGED <<entDel, relDel>>
       ELSE /\ entDel' = entDel \cup {h.id}
            /\ relDel' = RelationsAfterDelete(relations, relDel, h.id)
            /\ hp' = [hp EXCEPT ![p] = [h EXCEPT !.pc = "de_vector"]]
            /\ UNCHANGED lastDel
  /\ UNCHANGED <<entType, entVec, collections, relations, lastEnt>>

\* delete_entity: qdrant.delete_embedding(type, id).await.ok() (vecOk: the
\* Qdrant delete succeeds); 204.
DeleteEntityVector(p) ==
  /\ hp[p].pc = "de_vector"
  /\ \E vecOk \in BOOLEAN :
       LET h == hp[p] IN
       /\ entVec' = IF vecOk THEN entVec \ {h.id} ELSE entVec
       /\ lastDel' = [result |-> "ok", id |-> h.id, vecDelOk |-> vecOk]
       /\ hp' = [hp EXCEPT ![p] = NoHandler]
  /\ UNCHANGED <<entType, collections, relations, relDel, lastEnt, entDel>>

\* handlers::delete_relation: surreal.get_relation(id).await (getOk: the
\* query succeeds; 500 on error, 404 when absent).
DeleteRelationGet(p) ==
  /\ hp[p].pc = "idle"
  /\ \E i \in 0..Len(relations), getOk \in BOOLEAN :
       IF getOk /\ RelationExists(i)
       THEN hp' = [hp EXCEPT ![p] = [NoHandler EXCEPT !.pc = "dr_delete", !.id = i]]
       ELSE UNCHANGED hp
  /\ UNCHANGED <<entType, entVec, collections, relations, relDel, lastEnt, entDel, lastDel>>

\* delete_relation: surreal.delete_relation(id).await (dbOk: it succeeds); 204.
DeleteRelationRecord(p) ==
  /\ hp[p].pc = "dr_delete"
  /\ \E dbOk \in BOOLEAN :
       /\ relDel' = IF dbOk THEN relDel \cup {hp[p].id} ELSE relDel
       /\ hp' = [hp EXCEPT ![p] = NoHandler]
  /\ UNCHANGED <<entType, entVec, collections, relations, lastEnt, entDel, lastDel>>

\* A task accepts a request / resumes a suspended handler.
RelStart(p) == CreateEntityStart(p) \/ CreateRelationSource(p) \/ DeleteEntityGet(p) \/ DeleteRelationGet(p)
RelResume(p) ==
  \/ CreateEntityWrite(p) \/ CreateEntityExists(p) \/ CreateEntityCollection(p) \/ CreateEntityUpsert(p)
  \/ CreateRelationTarget(p) \/ CreateRelationValidate(p) \/ CreateRelationWrite(p)
  \/ DeleteEntityRecord(p) \/ DeleteEntityVector(p) \/ DeleteRelationRecord(p)

NextRel ==
  \E p \in HandlerSlots : (RelStart(p) \/ RelResume(p)) /\ UNCHANGED <<evVars, ontVars, fnVars>>
\* Concurrent create_entity and create_relation requests.
NextCreate ==
  \E p \in HandlerSlots :
    /\ \/ CreateEntityStart(p) \/ CreateEntityWrite(p) \/ CreateEntityExists(p)
       \/ CreateEntityCollection(p) \/ CreateEntityUpsert(p)
       \/ CreateRelationSource(p) \/ CreateRelationTarget(p) \/ CreateRelationValidate(p)
       \/ CreateRelationWrite(p)
    /\ UNCHANGED <<evVars, ontVars, fnVars>>

\* Schema uploads served while entity and relation requests run (they swap
\* the reasoner the handlers validate with).
\* The uploaded document is SchemaB: it drops LLMAgent and both relation
\* types of RelSchema.
MaxRelUploads == 1
RelUploadDocs == {[fmt |-> "json", parses |-> TRUE, sch |-> SchemaB]}
RelUpload ==
  /\ uploadCount < MaxRelUploads
  /\ \E doc \in RelUploadDocs : UploadSchemaDoc(doc)
  /\ UNCHANGED <<relVars, evVars, fnVars>>

NextSingle == \E p \in SingleSlots : IngestEventStart(p) \/ IngestEventStep(p)
NextBulk == BulkStart \/ BulkStep \/ BulkEventStep \/ BulkFinish
NextEv == NextSingle \/ NextBulk

Next == NextRel \/ NextEv \/ NextOnt \/ ApplyValidate \/ ApplyHierarchy \/ ApplyEntityValidation \/ ApplyRelationValidation \/ ApplyExpansion
  \/ ClosureStep \/ ApplyRankFusion \/ TraceRaceStep \/ TraverseStep \/ ApplyVectorQuery \/ ApplyCombined \/ ApplyMerge \/ ApplyRelExpansion \/ EmbedCall \/ UpdateEntityCall

Spec == Init /\ [][Next]_vars
RelSpec == InitRelLoaded /\ [][NextCreate \/ RelUpload]_vars
\* Concurrent ingest_event calls, then one bulk request.
NextSeq ==
  \/ bpc = "idle" /\ NextSingle
  \/ (\A p \in SingleSlots : sp[p].pc = "idle") /\ BulkStart
  \/ BulkStep \/ BulkEventStep \/ BulkFinish
EventSpec == Init /\ [][NextSeq]_vars
\* Entity and relation requests within a budget of graph writes (requests
\* in progress count as writes).
GraphRoom ==
  Len(entType) + Len(relations) + Cardinality(entDel) + Cardinality(relDel)
    + Busy({"ce_write", "ce_exists", "ce_create", "ce_upsert", "cr_target", "cr_validate", "cr_write",
            "de_delete", "de_vector", "dr_delete"})
  < MaxGraphWrites
NextGraph ==
  \E p \in HandlerSlots :
    ((GraphRoom /\ RelStart(p)) \/ RelResume(p)) /\ UNCHANGED <<evVars, ontVars, fnVars>>
GraphSpec == InitRelSpec /\ [][NextGraph \/ RelUpload]_vars
SingleSpec == Init /\ [][NextSingle]_vars
\* Entity writes begun before a bulk event ingestion, within a budget of
\* writes.
WriteRoom == Len(entType) + Busy({"ce_write"}) + evStarted < MaxWrites
NextWrites ==
  \/ \E p \in HandlerSlots :
       /\ \/ WriteRoom /\ bpc = "idle" /\ CreateEntityStart(p)
          \/ CreateEntityWrite(p) \/ CreateEntityExists(p) \/ CreateEntityCollection(p) \/ CreateEntityUpsert(p)
       /\ UNCHANGED <<evVars, ontVars, fnVars>>
  \/ RelUpload
  \/ BulkStart
  \/ WriteRoom /\ BulkStep
  \/ BulkEventStep
  \/ BulkFinish
WriteSpec == InitRelSpec /\ [][NextWrites]_vars
BulkSpec == Init /\ [][NextBulk]_vars
\* Schema uploads interleaved with one combined query.
OntInit == InitRel /\ InitEv /\ InitOntStartup /\ InitFn
OntSpec == OntInit /\ [][NextOnt]_vars

\* ---------------------------------------------------------------------
\* Properties
\* ---------------------------------------------------------------------

\* C1: with an active schema, every source entity has at most one outgoing
\* relation of each functional relation type (a write of a second outgoing
\* relation of a functional type is rejected).
FunctionalRelationUnique ==
  active.sch = RelSchema =>
    \A s \in 1..Len(entType), rt \in RelTypes :
      Functional[rt] => OutCount(relations, relDel, s, rt) <= 1

\* C2: when two sequential events of one bulk request share session_id "s",
\* carry no trace_id, and the first creates trace T, the second is attached
\* to T, no second trace is created and trace_ids = {T}.
SessionTraceReuse ==
  (/\ bpc = "done" /\ blen = 2 /\ bauto
   /\ \A i \in 1..2 : brec[i].sid = "s" /\ ~brec[i].tidGiven
                      /\ brec[i].outcome = "ok" /\ ~brec[i].faults
   /\ brec[1].newTrace)
  => /\ brec[2].tid = brec[1].tid
     /\ ~brec[2].newTrace
     /\ btraceIds = <<brec[1].tid>>

\* C3: an event with no trace_id and no session_id but agent_id a is attached
\* to the most recent running trace of agent a (no trace is created) when one
\* exists; a trace created by resolution is running, has the given session
\* id or "default", and the given agent id.
AgentTraceReuse ==
  /\ (/\ lastEv.req.tid = NoTid /\ lastEv.req.sid = None /\ lastEv.req.aid # None
      /\ lastEv.agentMatch # 0 /\ ~lastEv.faults)
     => lastEv.newTrace = 0 /\ lastEv.tid = Uuid(lastEv.agentMatch)
  /\ lastEv.newTrace # 0 =>
       traces[lastEv.newTrace] =
         [session |-> IF lastEv.req.sid = None THEN DefaultSession ELSE lastEv.req.sid,
          agent |-> lastEv.req.aid, status |-> "running"]

\* C4: in a bulk request with auto_create_traces = false, an event whose
\* session_id matches an existing trace is resolved to it and ingested
\* (absent store errors); an event that fails resolution creates no trace.
AutoCreateOffResolvesSession ==
  ~bauto =>
    \A i \in 1..MaxBatch :
      brec[i].outcome # "pending" =>
        /\ (brec[i].sid # None /\ ~brec[i].tidGiven /\ brec[i].sessMatch /\ ~brec[i].faults)
             => brec[i].outcome = "ok"
        /\ brec[i].outcome = "fail" => ~brec[i].newTrace

\* C5: every persisted agent_event has exactly one contains edge pointing to
\* it, and that edge comes from an existing agent_trace whose id is the
\* event's trace_id.
EventInOneTrace ==
  \A n \in evs :
    /\ Cardinality({ed \in edges : ed[2] = n}) = 1
    /\ \A ed \in edges : ed[2] = n => ed[1] = evAlloc[n] /\ TraceExists(ed[1])

\* C6: an event reported failed has no agent_event record and no contains
\* edge; an event reported ingested has both.
EventAtomic ==
  LET Rec(n) == n \in evs
      Edge(n) == \E ed \in edges : ed[2] = n
      Atomic(res, n) ==
        /\ (res = "fail" /\ n # 0) => ~Rec(n) /\ ~Edge(n)
        /\ res = "ok" => Rec(n) /\ Edge(n)
  IN /\ Atomic(IF lastEv.result = "err" THEN "fail" ELSE lastEv.result, lastEv.n)
     /\ \A i \in 1..MaxBatch : Atomic(brec[i].outcome, brec[i].n)

\* C7: within one ingest_event call, trace resolution comes first, the event
\* record is persisted before the contains relation is created, and the
\* vector upsert happens only after the event record exists.
IngestStepOrder ==
  LET L == lastEv.log IN
  /\ Len(L) > 0 => L[1].step = "resolve"
  /\ \A i \in 1..Len(L) :
       /\ L[i].step = "create_event" => i = 2
       /\ L[i].step = "relate" => i = 3 /\ L[i].evExists
       /\ L[i].step = "vector" => i = 4 /\ L[i].evExists

\* C8: the bulk response has ingested + failed = n, one error record per
\* failed event carrying its index, trace_ids = the duplicate-free set of
\* trace ids of the ingested events, and every event got an outcome. The
\* outcomes are independent: an event fails only through its own input (no
\* trace_id with auto_create_traces off) or an error of one of its own
\* queries, and the outcome recorded for an event is never changed by the
\* events processed after it.
BulkResponseConsistent ==
  /\ [](bpc = "done" =>
         /\ bingested + bfailed = blen
         /\ \A i \in 1..blen : brec[i].outcome # "pending"
         /\ Len(berrors) = bfailed
         /\ {berrors[j] : j \in 1..Len(berrors)} = {i \in 1..blen : brec[i].outcome = "fail"}
         /\ {btraceIds[j] : j \in 1..Len(btraceIds)} = {brec[i].tid : i \in {k \in 1..blen : brec[k].outcome = "ok"}}
         /\ \A j, k \in 1..Len(btraceIds) : j # k => btraceIds[j] # btraceIds[k])
  /\ [](\A i \in 1..MaxBatch :
         brec[i].outcome = "fail" => brec[i].faults \/ (~brec[i].tidGiven /\ ~bauto))
  /\ [][\A i \in 1..MaxBatch : brec[i].outcome # "pending" => brec'[i] = brec[i]]_vars

BulkResponseWitness ==
  /\ bpc = "done"
  /\ \E i, j \in 1..blen : i < j /\ brec[i].outcome = "fail" /\ brec[j].outcome = "ok"

\* C9: a vector-store failure during an entity write or during a bulk event
\* write is swallowed: the entity is created and reported created, the event
\* is counted as ingested.
VectorFailureSwallowed ==
  /\ lastEnt.vecFault => lastEnt.result = "ok" /\ lastEnt.id \in 1..Len(entType)
  /\ \A i \in 1..MaxBatch : brec[i].vecFault => brec[i].outcome = "ok"

VectorFailureWitness ==
  lastEnt.vecFault /\ \E i \in 1..MaxBatch : brec[i].vecFault

\* C10: when embedding fails during an entity write, the write fails and no
\* entity record is created.
EntityEmbedFailureFailsWrite ==
  lastEnt.embedFail => lastEnt.result # "ok"

\* C11 (as stated): deleting an existing entity e removes e from the graph
\* store and its vector from its type's collection, and leaves every relation
\* record unchanged.
EntityDeleteCascade ==
  [][\A p \in HandlerSlots :
       /\ (hp[p].pc = "de_delete" /\ hp'[p].pc = "de_vector") => relDel' = relDel
       /\ (hp[p].pc = "de_vector" /\ hp'[p].pc = "idle") => hp[p].id \notin entVec']_vars

\* C11 (amended): deleting an existing entity e removes e from the graph store
\* and leaves every relation record unchanged; e's vector is removed when the
\* Qdrant delete succeeds, and stays when it fails (the error is swallowed and
\* the call still succeeds).
EntityDeleteEffect ==
  [][/\ entDel' # entDel => \E p \in HandlerSlots : hp[p].pc = "de_delete" /\ hp'[p].pc = "de_vector"
     /\ \A p \in HandlerSlots :
          /\ (hp[p].pc = "de_delete" /\ hp'[p].pc = "de_vector") =>
               /\ relations' = relations /\ relDel' = relDel
               /\ entDel' = entDel \cup {hp[p].id}
          /\ (hp[p].pc = "de_vector" /\ hp'[p].pc = "idle") =>
               /\ lastDel'.result = "ok" /\ lastDel'.id = hp[p].id
               /\ lastDel'.vecDelOk => hp[p].id \notin entVec'
               /\ ~lastDel'.vecDelOk => entVec' = entVec]_vars

EntityDeleteWitness ==
  /\ lastDel.result = "ok" /\ ~lastDel.vecDelOk /\ lastDel.id \in entVec
  /\ \E i \in 1..Len(relations) :
       RelationExists(i) /\ (relations[i].src = lastDel.id \/ relations[i].tgt = lastDel.id)

\* C12: a combined query sees one schema snapshot for its whole duration:
\* when both its vector type expansion and its graph relation expansion
\* have read the reasoner, they read the same snapshot (uploads swap the
\* schema atomically).
QuerySnapshotConsistent ==
  (qVecSnap # NoRead /\ qGraphSnap # NoRead) => qVecSnap = qGraphSnap

\* C13: an upload whose document does not parse or whose schema fails
\* internal validation returns an error (400) and leaves the active
\* schema unchanged (still absent or still the previous snapshot).
UploadFailureKeepsSchema ==
  [][uploadCount' # uploadCount /\ (~lastUpload'.doc.parses \/ ~ValidateSchema(lastUpload'.doc.sch))
       => lastUpload'.status = 400 /\ active' = active]_vars
UploadFailureWitness ==
  lastUpload.status = 400 /\ lastUpload.doc.parses /\ active # NoSnapshot /\ active = lastUpload.before

\* C14: OntologySchema::validate returns ok iff every entity type's parent
\* resolves, the parent graph has no cycle, every relation's domain and
\* range resolve to entity types and every declared inverse resolves to a
\* relation type; in particular ok implies no circular inheritance.
RECURSIVE ParentPow(_, _, _)
ParentPow(s, t, k) ==
  IF k = 0 THEN t
  ELSE IF t \in s.types /\ s.parent[t] # NoParent THEN ParentPow(s, s.parent[t], k - 1)
  ELSE NoParent
ParentGraphAcyclic(s) ==
  ~\E t \in s.types : \E k \in 1..Cardinality(s.types) : ParentPow(s, t, k) = t
SchemaConsistent(s) ==
  /\ \A t \in s.types : s.parent[t] = NoParent \/ s.parent[t] \in s.types
  /\ ParentGraphAcyclic(s)
  /\ \A r \in s.rels : s.dom[r] \in s.types /\ s.rng[r] \in s.types
  /\ \A r \in s.rels : s.inv[r] = NoInverse \/ s.inv[r] \in s.rels
SchemaValidateIff ==
  fnOut # "none" => (fnOut = "ok" <=> SchemaConsistent(fnSch))
SchemaValidateWitness ==
  /\ fnOut = "err"
  /\ ~ParentGraphAcyclic(fnSch)
  /\ \A t \in fnSch.types : fnSch.parent[t] = NoParent \/ fnSch.parent[t] \in fnSch.types
  /\ \E r \in fnSch.rels : fnSch.inv[r] # NoInverse

\* C15: for every entity type T of a valid schema, subtypes(T) contains T
\* and exactly the types whose parent chain reaches T (so it is closed
\* under child edges); supertypes(T) starts with T, follows the parent
\* links in order and ends at a type with no parent. For Agent,
\* LLMAgent(parent Agent), HumanAgent(parent Agent): subtypes(Agent) =
\* {Agent, LLMAgent, HumanAgent} and supertypes(LLMAgent) = [LLMAgent, Agent].
HierarchyExampleSchema ==
  MkSchema(OntTypeIds, [t \in OntTypeIds |-> IF t = "Agent" THEN NoParent ELSE "Agent"],
           {}, NoRelMap, NoRelMap, NoRelMap, NoRelMap)
HierarchyCorrect ==
  fnOut # NoHierarchy =>
    LET sub == fnOut.sub
        sup == fnOut.sup IN
    /\ sub = {fnArg} \cup {u \in fnSch.types :
                             \E k \in 1..Cardinality(fnSch.types) : ParentPow(fnSch, u, k) = fnArg}
    /\ \A u \in fnSch.types : fnSch.parent[u] \in sub => u \in sub
    /\ Len(sup) >= 1 /\ sup[1] = fnArg
    /\ \A i \in 1..(Len(sup) - 1) : sup[i + 1] = fnSch.parent[sup[i]]
    /\ fnSch.parent[sup[Len(sup)]] = NoParent
    /\ (fnSch = HierarchyExampleSchema /\ fnArg = "Agent")
         => sub = {"Agent", "LLMAgent", "HumanAgent"}
    /\ (fnSch = HierarchyExampleSchema /\ fnArg = "LLMAgent")
         => sup = <<"LLMAgent", "Agent">>
HierarchyWitness ==
  /\ fnOut # NoHierarchy
  /\ fnSch = HierarchyExampleSchema
  /\ fnArg = "Agent"
  /\ Cardinality(fnOut.sub) = 3

\* C16: if validate_entity(T, P) is ok, every required property declared on
\* T or on a supertype of T is present in P, and every constraint declared
\* on T holds for the provided values.
VSupertypes(t) == IF VParent[t] = NoParent THEN {t} ELSE {t, VParent[t]}
RegexMatches(pat, x) == CASE pat = "^a" -> x \in {"a"} [] OTHER -> TRUE
ConstraintHolds(c, P) ==
  \A p \in DOMAIN P :
    CASE c.kind = "ValueRange" -> P[p].kind = "num" => c.lo <= P[p].n /\ P[p].n <= c.hi
      [] c.kind = "Enum" -> P[p].kind = "str" => P[p].s \in c.vals
      [] c.kind = "StringLength" ->
           P[p].kind = "str" => (c.lo = -1 \/ c.lo <= P[p].n) /\ (c.hi = -1 \/ P[p].n <= c.hi)
      [] c.kind = "Pattern" -> P[p].kind = "str" => RegexMatches(c.pat, P[p].s)
      [] OTHER -> TRUE
EntityValidSound ==
  (fnOut.done /\ DOMAIN fnOut.errs = {}) =>
    /\ \A u \in VSupertypes(fnArg.t) : \A i \in 1..Len(fnSch.props[u]) :
         fnSch.props[u][i].required => fnSch.props[u][i].name \in DOMAIN fnArg.P
    /\ \A i \in 1..Len(fnSch.cons[fnArg.t]) : ConstraintHolds(fnSch.cons[fnArg.t][i], fnArg.P)

\* C17: validate_entity reports a missing-property error for every declared
\* (own or inherited) property absent from the input that is required or
\* has cardinality One or OneOrMore. Agent requiring name (String, One) and
\* the input {"id": "a"} give exactly one missing-property error, for name.
MissingErrKinds(B) == {e \in DOMAIN B : e.k = "missing"}
MissingReported ==
  fnOut.done =>
    /\ \A u \in VSupertypes(fnArg.t) : \A i \in 1..Len(fnSch.props[u]) :
         LET d == fnSch.props[u][i] IN
         (d.name \notin DOMAIN fnArg.P /\ (d.required \/ d.card \in {"One", "OneOrMore"}))
           => CopiesIn(Err("missing", d.name, NoCons), fnOut.errs) >= 1
    /\ (/\ fnArg.t = "Agent" /\ DOMAIN fnArg.P = {"id"}
        /\ fnSch.props["Agent"] = <<PropDef("name", "String", TRUE, "One")>>)
         => /\ MissingErrKinds(fnOut.errs) = {Err("missing", "name", NoCons)}
            /\ CopiesIn(Err("missing", "name", NoCons), fnOut.errs) = 1

\* C18: validate_entity accumulates errors: the returned list holds one
\* entry for every failure found (every missing required property, type
\* mismatch, cardinality violation, and every provided value that violates
\* a ValueRange, Enum or StringLength constraint).
EntityFailures(s, t, P) ==
  UNION {{[k |-> "missing", u |-> u, i |-> i, p |-> ""] :
           i \in {j \in 1..Len(s.props[u]) :
                    s.props[u][j].required /\ s.props[u][j].name \notin DOMAIN P}}
         : u \in VSupertypes(t)}
  \cup {[k |-> "type", u |-> "", i |-> 0, p |-> p] :
          p \in {q \in DOMAIN P : \E u \in VSupertypes(t) : \E j \in 1..Len(s.props[u]) :
                   s.props[u][j].name = q /\ ~PropTypeMatches(P[q], s.props[u][j].ptype)}}
  \cup {[k |-> "card", u |-> "", i |-> 0, p |-> p] :
          p \in {q \in DOMAIN P : \E u \in VSupertypes(t) : \E j \in 1..Len(s.props[u]) :
                   s.props[u][j].name = q /\ ~CardValid(CardCount(P[q]), s.props[u][j].card)}}
  \cup UNION {{[k |-> "cons", u |-> "", i |-> i, p |-> p] :
                  p \in {q \in DOMAIN P : ~ConstraintHolds(s.cons[t][i], [x \in {q} |-> P[q]])}}
               : i \in {j \in 1..Len(s.cons[t]) :
                        s.cons[t][j].kind \in {"ValueRange", "Enum", "StringLength"}}}
ErrorsAccumulated ==
  fnOut.done => BagCardinality(fnOut.errs) = Cardinality(EntityFailures(fnSch, fnArg.t, fnArg.P))

\* C19: validate_relation(RT, src, tgt) is ok iff src is a subtype of
\* RT.domain and tgt a subtype of RT.range; direction matters even for a
\* symmetric relation: for executes(Agent -> Task), validate_relation(
\* executes, Task, Agent) fails with an endpoints-incompatible error.
SubtypeInSchema(s, a, b) ==
  a \in s.types /\ (a = b \/ \E k \in 1..Cardinality(s.types) : ParentPow(s, a, k) = b)
RelationValidIff ==
  fnOut # "none" =>
    /\ fnOut = "ok" <=> (/\ SubtypeInSchema(fnSch, fnArg.st, fnSch.dom[fnArg.rt])
                         /\ SubtypeInSchema(fnSch, fnArg.tt, fnSch.rng[fnArg.rt]))
    /\ (/\ fnSch.types = {"Agent", "Task"}
        /\ fnSch.dom["executes"] = "Agent" /\ fnSch.rng["executes"] = "Task"
        /\ fnArg.st = "Task" /\ fnArg.tt = "Agent")
         => fnOut = "invalid"
RelationDirectionWitness ==
  /\ fnOut = "invalid"
  /\ fnSch.sym[fnArg.rt]
  /\ SubtypeInSchema(fnSch, fnArg.tt, fnSch.dom[fnArg.rt])
  /\ SubtypeInSchema(fnSch, fnArg.st, fnSch.rng[fnArg.rt])

\* C20: for every type T and relation RT whose domain covers T,
\* expand(T).inferred_relations contains the direct record (T -> range,
\* SubtypeInheritance); if RT is symmetric also (range -> T, Symmetric);
\* if RT has an inverse, a record of the inverse (range -> T, Inverse);
\* expanded_types equals subtypes(T).
ExpandComplete ==
  fnOut # NoExpansion =>
    /\ fnOut.types = {u \in fnSch.types : SubtypeInSchema(fnSch, u, fnArg)}
    /\ \A r \in fnSch.rels : SubtypeInSchema(fnSch, fnArg, fnSch.dom[r]) =>
         /\ [rt |-> r, src |-> fnArg, tgt |-> fnSch.rng[r], reason |-> "SubtypeInheritance"] \in fnOut.inferred
         /\ fnSch.sym[r] =>
              [rt |-> r, src |-> fnSch.rng[r], tgt |-> fnArg, reason |-> "Symmetric"] \in fnOut.inferred
         /\ fnSch.inv[r] # NoInverse =>
              [rt |-> fnSch.inv[r], src |-> fnSch.rng[r], tgt |-> fnArg, reason |-> "Inverse"] \in fnOut.inferred
ExpandWitness ==
  /\ fnOut # NoExpansion
  /\ \E r \in fnSch.rels :
       /\ fnSch.sym[r] /\ fnSch.inv[r] # NoInverse
       /\ fnSch.dom[r] # fnArg /\ SubtypeInSchema(fnSch, fnArg, fnSch.dom[r])

\* C21: for a transitive relation, get_transitive_closure(RT, x, A)
\* terminates and equals the set of nodes reachable from x by one or more
\* edges of A; for a non-transitive relation it returns exactly A[x]
\* (empty if x has no entry).
RECURSIVE ReachWithin(_, _, _)
ReachWithin(A, S, k) ==
  IF k = 0 THEN S ELSE ReachWithin(A, S \cup UNION {Adjacent(A, n) : n \in S}, k - 1)
ReachableFrom(A, x) == ReachWithin(A, Adjacent(A, x), Cardinality(ClosureNodes))
ClosureCorrect ==
  /\ <>fnOut.done
  /\ [](fnOut.done =>
        fnOut.closure = IF fnArg.trans THEN ReachableFrom(fnArg.A, fnArg.x)
                        ELSE IF fnArg.x \in DOMAIN fnArg.A THEN fnArg.A[fnArg.x] ELSE {})
ClosureWitness ==
  /\ fnOut.done /\ fnArg.trans
  /\ fnArg.x \in fnOut.closure
  /\ \E n \in fnOut.closure : n \notin Adjacent(fnArg.A, fnArg.x)

\* C22: RankFusion gives each id the score sum of 1/(60 + rank + 1) over the
\* vector and graph lists containing it (rank counted from 0), marks every
\* result Hybrid and orders the results by descending score.
Min2(a, b) == IF a <= b THEN a ELSE b

ListRrf(s, x) == IF \E i \in 1..Len(s) : s[i] = x THEN RankScale \div (60 + (SeqIndex(s, x) - 1) + 1) ELSE 0

RankFusionCorrect ==
  fnOut.done =>
    /\ \A i \in 1..Len(fnOut.res) :
         /\ fnOut.res[i].score = ListRrf(fnArg.v, fnOut.res[i].id) + ListRrf(fnArg.g, fnOut.res[i].id)
         /\ fnOut.res[i].source = "Hybrid"
    /\ \A i \in 1..Len(fnOut.res) - 1 : fnOut.res[i].score >= fnOut.res[i + 1].score
    /\ {fnOut.res[i].id : i \in 1..Len(fnOut.res)} \subseteq {fnArg.v[i] : i \in 1..Len(fnArg.v)} \cup {fnArg.g[i] : i \in 1..Len(fnArg.g)}
    /\ Len(fnOut.res) = Min2(fnArg.limit, Cardinality({fnArg.v[i] : i \in 1..Len(fnArg.v)} \cup {fnArg.g[i] : i \in 1..Len(fnArg.g)}))

RankFusionWitness ==
  /\ fnArg.v = <<"A", "B">> /\ fnArg.g = <<"B", "C", "A">> /\ fnArg.limit = 3
  /\ fnOut.done
  /\ [i \in 1..Len(fnOut.res) |-> fnOut.res[i].id] = <<"B", "A", "C">>

\* C23: when two events with the same session id and no prior trace of it are
\* ingested concurrently, at most one agent_trace with that session id exists
\* once both have resolved their trace, and both resolved to that trace.
TraceRow(tid) == tid[2]

SingleSessionTrace ==
  (\A p \in RaceProcs : fnOut.pc[p] = "done") =>
    /\ Cardinality(SessionRows(fnOut.tbl, RaceSession)) <= 1
    /\ TraceRow(fnOut.res[1]) = TraceRow(fnOut.res[2])

\* C24: traverse_graph terminates; depth 0 gives the empty list; the result
\* lists each entity at most once, in breadth-first discovery order (hop
\* distance from start never decreases), and every listed entity is reachable
\* from start within depth hops.
HopsFrom(E, x, k) == ReachWithin(E, IF k = 0 THEN {} ELSE E[x], k - 1)

HopDistance(E, x, n) ==
  CHOOSE k \in 1..MaxDepth + 1 : /\ n \in HopsFrom(E, x, k) \/ k = MaxDepth + 1
                                 /\ \A j \in 1..k - 1 : n \notin HopsFrom(E, x, j)

TraverseCorrect ==
  /\ <>fnOut.done
  /\ [](fnOut.done =>
          /\ (fnArg.depth = 0 => fnOut.res = <<>>)
          /\ \A i, j \in 1..Len(fnOut.res) : i # j => fnOut.res[i] # fnOut.res[j]
          /\ \A i \in 1..Len(fnOut.res) : fnOut.res[i] \in HopsFrom(fnArg.E, TravStart, fnArg.depth)
          /\ \A i \in 1..Len(fnOut.res) - 1 :
               HopDistance(fnArg.E, TravStart, fnOut.res[i]) <= HopDistance(fnArg.E, TravStart, fnOut.res[i + 1]))

\* C25: when several per-type searches return the same entity id, the vector
\* query keeps the highest of its (filtered) scores; scores below min_score
\* and ids missing from the graph store are dropped; the list is sorted by
\* descending score and truncated to limit.
HitScores(a, i) ==
  UNION {{a.sr[k].hits[j].score : j \in {j \in 1..Len(a.sr[k].hits) :
                                              a.sr[k].hits[j].id = i /\ (a.minS = NoMinScore \/ a.sr[k].hits[j].score >= a.minS)}} :
           k \in {k \in 1..a.ntypes : a.sr[k].ok}}

KeptIds(a) == {i \in VecIds \ a.missing : HitScores(a, i) # {}}

TraversalExpanded(a) == {TravStart} \cup (IF a.depth <= 1 THEN {} ELSE HopsFrom(a.E, TravStart, a.depth - 1))

GraphCallFails(a) ==
  \/ TraversalExpanded(a) \cap a.relErr # {}
  \/ UNION {a.E[n] : n \in TraversalExpanded(a)} \cap a.entErr # {}

FailurePolicy ==
  fnOut.done =>
    /\ (~fnArg.vec.embedFail /\ KeptIds(fnArg.vec) \cap fnArg.vec.fetchErr = {}) =>
         /\ fnOut.vres.ok
         /\ {fnOut.vres.res[n].id : n \in 1..Len(fnOut.vres.res)} = KeptIds(fnArg.vec)
    /\ (fnArg.hasGraph /\ GraphCallFails(fnArg)) => ~fnOut.ok
    /\ fnOut.ok <=> (fnOut.vres.ok /\ (fnArg.hasGraph => ~GraphCallFails(fnArg)))

FailurePolicyWitness ==
  /\ fnOut.done /\ fnArg.hasGraph
  /\ \E k \in 1..fnArg.vec.ntypes : ~fnArg.vec.sr[k].ok
  /\ fnOut.vres.ok /\ Len(fnOut.vres.res) > 0
  /\ ~fnOut.ok /\ GraphCallFails(fnArg)

\* C27: with a graph result, Union yields every id of both lists (averaged
\* score and Hybrid for ids in both); Intersection keeps the vector entries
\* whose id is in the graph list (Hybrid); VectorPriority keeps the vector
\* list with its scores and marks graph-present ids Hybrid; GraphPriority keeps
\* the graph list and takes the vector score (Hybrid) for ids in the vector
\* list. The result is sorted by descending score and truncated to the vector
\* query's limit.
VScore(a, x) == a.v[CHOOSE i \in 1..Len(a.v) : a.v[i].id = x].score

GScore(a, x) == a.g[CHOOSE i \in 1..Len(a.g) : a.g[i].id = x].score

ExpectedMerge(a) ==
  LET V == SeqIds(a.v)
      G == SeqIds(a.g) IN
  CASE a.st = "Union" ->
         {[id |-> x, score |-> IF x \in V /\ x \in G THEN (VScore(a, x) + GScore(a, x)) \div 2
                               ELSE IF x \in V THEN VScore(a, x) ELSE GScore(a, x),
           source |-> IF x \in V /\ x \in G THEN "Hybrid" ELSE IF x \in V THEN "Vector" ELSE "Graph"] : x \in V \cup G}
    [] a.st = "Intersection" -> {[id |-> x, score |-> VScore(a, x), source |-> "Hybrid"] : x \in V \cap G}
    [] a.st = "VectorPriority" ->
         {[id |-> x, score |-> VScore(a, x), source |-> IF x \in G THEN "Hybrid" ELSE "Vector"] : x \in V}
    [] a.st = "GraphPriority" ->
         {[id |-> x, score |-> IF x \in V THEN VScore(a, x) ELSE GScore(a, x),
           source |-> IF x \in V THEN "Hybrid" ELSE "Graph"] : x \in G}

MergeCorrect ==
  fnOut.done =>
    LET X == ExpectedMerge(fnArg) IN
    /\ \A i \in 1..Len(fnOut.res) : fnOut.res[i] \in X
    /\ \A i, j \in 1..Len(fnOut.res) : i # j => fnOut.res[i] # fnOut.res[j]
    /\ \A i \in 1..Len(fnOut.res) - 1 : fnOut.res[i].score >= fnOut.res[i + 1].score
    /\ Len(fnOut.res) = Min2(fnArg.limit, Cardinality(X))
    /\ \A r \in X \ SeqSet(fnOut.res) : \A i \in 1..Len(fnOut.res) : r.score <= fnOut.res[i].score

MergeWitness ==
  /\ fnOut.done /\ fnArg.st = "GraphPriority" /\ Cardinality(ExpectedMerge(fnArg)) > fnArg.limit
  /\ \E i \in 1..Len(fnOut.res) : fnOut.res[i].source = "Hybrid" /\ fnOut.res[i].score # GScore(fnArg, fnOut.res[i].id)

\* C28: with expand_relations set, a non-empty relation list and an ontology
\* loaded, the traversed relation set contains, for each listed relation R
\* with a declared inverse R', the inverse R'.
InverseIncluded ==
  (fnOut.done /\ fnArg.expand /\ fnArg.rts # {} /\ fnArg.loaded) =>
    /\ fnArg.rts \subseteq fnOut.rels
    /\ \A r \in fnArg.rts \cap fnSch.rels : fnSch.inv[r] # NoInverse => fnSch.inv[r] \in fnOut.rels

\* C29: the local fallback is tried at most once per call, and only when the
\* primary provider returned an error and fallback is configured; when
\* fallback is not configured or not available, a primary error reaches the
\* caller; a successful primary call never invokes the fallback.
FallbackPolicy ==
  fnOut.n > 0 =>
    LET l == fnOut.last IN
    /\ l.fb <= 1 /\ fnOut.fbCalls <= fnOut.primCalls
    /\ l.fb = 1 => (l.prim = "err" /\ fnOut.mgr.fallback)
    /\ l.prim = "ok" => l.fb = 0
    /\ (l.prim = "err" /\ ~(fnOut.mgr.fallback /\ fnOut.mgr.localService)) => l.res = "primary_err"

\* C30: each update_entity call that writes replaces the stored properties
\* in full with its request's, which (with an ontology loaded) pass
\* validation; a call that fails validation leaves the stored entity
\* unchanged; only these writes change the stored entity; the vector keeps
\* the embedding of the creation properties.
UpdateReplaces ==
  /\ [][\A p \in UpdProcs :
         (fnOut.proc[p].pc = "write" /\ fnOut'.proc[p].pc = "idle") =>
           /\ fnOut'.last.status = "ok" =>
                /\ fnOut'.stored.props = fnOut.proc[p].req
                /\ fnArg.loaded => ValidateEntityOutcomes(fnSch, fnArg.t, fnOut'.stored.props) = {EmptyBag}
           /\ fnOut'.last.status # "ok" => fnOut'.stored = fnOut.stored]_vars
  /\ [][fnOut.proc = fnOut'.proc => fnOut'.stored = fnOut.stored]_vars
  /\ [](fnOut.vec = fnArg.P0)

UpdateWitness ==
  /\ fnArg.loaded /\ fnOut.last.status = "ok"
  /\ fnOut.last.before.props # fnOut.last.req
  /\ DOMAIN fnOut.last.before.props \ DOMAIN fnOut.last.req # {}
  /\ fnOut.vec # fnOut.stored.props

====
